---------------------------- MODULE Spec2Model ----------------------------
(***************************************************************************)
(* GlitchEdit: PNG container codec, IDAT compression bridge, layer stack   *)
(* engine and edit history, modelled as a state machine over the editor    *)
(* state object (`state` in script.js).                                    *)
(*                                                                         *)
(* Bytes are integers 0..255, typed arrays are sequences (index i of the   *)
(* source is index i+1 here).  32-bit words that do not fit TLC's integers *)
(* (CRC values) are kept as four big-endian bytes.  Indices that the       *)
(* source keeps 0-based (dirtyFromIndex, historyIndex, chunk offsets) keep *)
(* their 0-based values.                                                   *)
(***************************************************************************)
EXTENDS Integers, Sequences, FiniteSets, TLC

\* null for references into the heap (references are 1, 2, ...)
NULL == 0

\* state.buffer before any load (null in the source)
NO_BUFFER == << >>

\* state.imageInfo when there is none (null in the source)
NO_IMAGE_INFO ==
  [ width |-> 0, height |-> 0, bitDepth |-> 0, colorType |-> -1, bytesPerPixel |-> 0,
    scanlineLength |-> 0, channels |-> 0 ]

\* the result of a call that returns null
Nothing == [ok |-> FALSE, data |-> << >>]

\* the result of a call that returns the byte array data
Bytes(data) == [ok |-> TRUE, data |-> data]

Byte == 0..255

Min(a, b) == IF a < b THEN a ELSE b
Max(a, b) == IF a > b THEN a ELSE b

(***************************************************************************)
(* Typed-array primitives                                                  *)
(***************************************************************************)

\* buffer.slice(start, end): clamps both ends to the array
Slice(buf, start, end) ==
  LET s == Min(Max(start, 0), Len(buf))
      e == Min(Max(end, 0), Len(buf))
  IN  IF e <= s THEN << >> ELSE [i \in 1..(e - s) |-> buf[s + i]]

\* buffer[off + i] = data[i] for every i; writes outside the array are ignored
WriteBytes(buf, off, data) ==
  [i \in 1..Len(buf) |->
     IF i - 1 >= off /\ i - 1 < off + Len(data) THEN data[i - off] ELSE buf[i]]

\* new Uint8Array(length).fill(value)
Filled(length, value) == [i \in 1..length |-> value]

(***************************************************************************)
(* Bit operations on bytes                                                 *)
(***************************************************************************)

Xor1(a, b) == IF a = b THEN 0 ELSE 1

Xor4Tab ==
  [a \in 0..15 |-> [b \in 0..15 |->
      8 * Xor1(a \div 8, b \div 8)
    + 4 * Xor1((a \div 4) % 2, (b \div 4) % 2)
    + 2 * Xor1((a \div 2) % 2, (b \div 2) % 2)
    + Xor1(a % 2, b % 2)]]

Xor8Tab ==
  [a \in Byte |-> [b \in Byte |->
      16 * Xor4Tab[a \div 16][b \div 16] + Xor4Tab[a % 16][b % 16]]]

Xor8(a, b) == Xor8Tab[a][b]

\* bytewise ^ of two 32-bit words
Xor32(x, y) == <<Xor8(x[1], y[1]), Xor8(x[2], y[2]), Xor8(x[3], y[3]), Xor8(x[4], y[4])>>

\* x >>> 1 on a 32-bit word
Shr1(x) ==
  << x[1] \div 2,
     (x[2] \div 2) + 128 * (x[1] % 2),
     (x[3] \div 2) + 128 * (x[2] % 2),
     (x[4] \div 2) + 128 * (x[3] % 2) >>

\* x >>> 8 on a 32-bit word
Shr8(x) == <<0, x[1], x[2], x[3]>>

(***************************************************************************)
(* CRC-32 engine                                                           *)
(***************************************************************************)

\* 0xEDB88320
CRC_POLY == <<237, 184, 131, 32>>

RECURSIVE CrcTableEntry(_, _)
CrcTableEntry(c, k) ==
  IF k = 0 THEN c
  ELSE CrcTableEntry(IF c[4] % 2 = 1 THEN Xor32(CRC_POLY, Shr1(c)) ELSE Shr1(c), k - 1)

crcTable == [n \in Byte |-> CrcTableEntry(<<0, 0, 0, n>>, 8)]

\* a faulty table step: the running value is not shifted
CrcStepUnshifted(crc, b) == Xor32(crcTable[Xor8(crc[4], b)], crc)

CrcStep(crc, b) == Xor32(crcTable[Xor8(crc[4], b)], Shr8(crc))

\* the for loop of crc32; st holds the index i and the running crc
RECURSIVE CrcLoop(_, _, _)
CrcLoop(st, data, end) ==
  IF st.i >= end THEN st.crc
  ELSE CrcLoop([i   |-> st.i + 1,
                crc |-> CrcStep(st.crc, IF st.i < Len(data) THEN data[st.i + 1] ELSE 0)],
               data, end)

\* crc32(data, start, length); the result is the four bytes of the uint32,
\* most significant first
crc32(data, start, length) ==
  Xor32(CrcLoop([i |-> start, crc |-> <<255, 255, 255, 255>>], data, start + length),
        <<255, 255, 255, 255>>)

(***************************************************************************)
(* PNG container codec                                                     *)
(***************************************************************************)

PNG_SIGNATURE == <<137, 80, 78, 71, 13, 10, 26, 10>>

T_SIG  == <<83, 73, 71>>
T_IHDR == <<73, 72, 68, 82>>
T_IDAT == <<73, 68, 65, 84>>
T_IEND == <<73, 69, 78, 68>>

\* The largest integer the model keeps; a big-endian uint32 above it is read
\* as this value (buffers are far shorter, so every comparison with a buffer
\* length has the same outcome as for the exact value).
U32_SATURATED == 2147483647

\* ((b[off] << 24) | (b[off+1] << 16) | (b[off+2] << 8) | b[off+3]) >>> 0
ReadU32(buf, off) ==
  LET b(i) == IF off + i < Len(buf) THEN buf[off + i + 1] ELSE 0
  IN  IF b(0) >= 128 THEN U32_SATURATED
      ELSE b(0) * 16777216 + b(1) * 65536 + b(2) * 256 + b(3)

\* the four bytes at off as a 32-bit word
ReadWord(buf, off) ==
  [i \in 1..4 |-> IF off + i - 1 < Len(buf) THEN buf[off + i] ELSE 0]

SignatureChunk(validSignature) ==
  [ offset |-> 0, length |-> 8, type |-> T_SIG, dataOffset |-> 0, dataLength |-> 8,
    crcOffset |-> -1, crc |-> <<0, 0, 0, 0>>, calculatedCrc |-> <<0, 0, 0, 0>>,
    crcValid |-> validSignature, isCritical |-> TRUE, isSignature |-> TRUE ]

ParseError(kind, type, offset) == [kind |-> kind, type |-> type, offset |-> offset]

\* type.charCodeAt(0) >= 65 && type.charCodeAt(0) <= 90
IsCriticalType(type) == type[1] >= 65 /\ type[1] <= 90

\* the chunk record with the CRC field left out of its length
ChunkRecordWithoutCrc(offset, length, type, storedCrc, calculatedCrc) ==
  [ offset |-> offset, length |-> 8 + length, type |-> type,
    dataOffset |-> offset + 8, dataLength |-> length,
    crcOffset |-> offset + 8 + length,
    crc |-> storedCrc, calculatedCrc |-> calculatedCrc,
    crcValid |-> (storedCrc = calculatedCrc),
    isCritical |-> IsCriticalType(type), isSignature |-> FALSE ]

\* the chunk record parsePNG pushes
ChunkRecord(offset, length, type, storedCrc, calculatedCrc) ==
  [ offset |-> offset, length |-> 12 + length, type |-> type,
    dataOffset |-> offset + 8, dataLength |-> length,
    crcOffset |-> offset + 8 + length,
    crc |-> storedCrc, calculatedCrc |-> calculatedCrc,
    crcValid |-> (storedCrc = calculatedCrc),
    isCritical |-> IsCriticalType(type), isSignature |-> FALSE ]

\* the record of the chunk at offset, whose declared length fits the buffer
ChunkAt(buffer, offset) ==
  ChunkRecord(offset, ReadU32(buffer, offset), Slice(buffer, offset + 4, offset + 8),
              ReadWord(buffer, offset + 8 + ReadU32(buffer, offset)),
              crc32(buffer, offset + 4, 4 + ReadU32(buffer, offset)))

\* if (!crcValid) errors.push({ type: 'crc', ... })
WithCrcError(errors, c) ==
  IF c.crcValid THEN errors
  ELSE Append(errors, ParseError("crc", c.type, c.offset))

RECURSIVE ParseWalk(_, _, _, _)

\* the iteration's end if a CRC mismatch ended the walk
ParseStepCrcFatal(buffer, chunks, errors, c) ==
  IF c.type = T_IEND \/ ~c.crcValid
  THEN [chunks |-> Append(chunks, c), errors |-> WithCrcError(errors, c)]
  ELSE ParseWalk(buffer, c.offset + c.length, Append(chunks, c), WithCrcError(errors, c))

\* the end of one iteration of the while loop: chunk c is pushed, the loop
\* breaks after IEND and otherwise goes on behind the chunk
ParseStep(buffer, chunks, errors, c) ==
  IF c.type = T_IEND
  THEN [chunks |-> Append(chunks, c), errors |-> WithCrcError(errors, c)]
  ELSE ParseWalk(buffer, c.offset + c.length, Append(chunks, c), WithCrcError(errors, c))

\* the while loop of parsePNG, from offset on
ParseWalk(buffer, offset, chunks, errors) ==
  IF ~(offset < Len(buffer) - 4) THEN [chunks |-> chunks, errors |-> errors]
  ELSE IF offset + 8 > Len(buffer)
  THEN [chunks |-> chunks,
        errors |-> Append(errors, ParseError("truncated", << >>, offset))]
  ELSE IF ReadU32(buffer, offset) > Len(buffer) - offset - 12
  THEN [chunks |-> chunks,
        errors |-> Append(errors, ParseError("truncated",
                                             Slice(buffer, offset + 4, offset + 8),
                                             offset))]
  ELSE ParseStep(buffer, chunks, errors, ChunkAt(buffer, offset))

ValidSignature(buffer) ==
  \A i \in 1..8 : i <= Len(buffer) /\ buffer[i] = PNG_SIGNATURE[i]

\* the structural checks without the check of the last chunk
StructureErrorsFirstOnly(chunks, errors) ==
  IF Len(chunks) > 1 /\ chunks[2].type # T_IHDR
  THEN Append(errors, ParseError("first-not-IHDR", << >>, 0))
  ELSE errors

\* the structural checks after the loop: first chunk IHDR, last chunk IEND
StructureErrors(chunks, errors) ==
  LET e1 == IF Len(chunks) > 1 /\ chunks[2].type # T_IHDR
            THEN Append(errors, ParseError("first-not-IHDR", << >>, 0))
            ELSE errors
  IN  IF chunks[Len(chunks)].type # T_IEND
      THEN Append(e1, ParseError("last-not-IEND", << >>, 0))
      ELSE e1

\* return { chunks, errors, isValid: errors.length === 0 }
ParseResult(chunks, errors) ==
  [chunks |-> chunks, errors |-> errors, isValid |-> (errors = << >>)]

ParseChecked(walk) ==
  ParseResult(walk.chunks, StructureErrors(walk.chunks, walk.errors))

parsePNG(buffer) ==
  ParseChecked(
    ParseWalk(buffer, 8, <<SignatureChunk(ValidSignature(buffer))>>,
              IF ValidSignature(buffer) THEN << >>
              ELSE <<ParseError("signature", << >>, 0)>>))

\* recalculateCRC(buffer, chunk): the buffer with the chunk's CRC rewritten
recalculateCRC(buffer, chunk) ==
  IF chunk.isSignature THEN buffer
  ELSE WriteBytes(buffer, chunk.crcOffset,
                  crc32(buffer, chunk.offset + 4, 4 + chunk.dataLength))

\* for (const chunk of chunks) if (!chunk.isSignature) recalculateCRC(buffer, chunk)
RECURSIVE RecalculateAll(_, _, _)
RecalculateAll(buffer, chunks, i) ==
  IF i > Len(chunks) THEN buffer
  ELSE RecalculateAll(recalculateCRC(buffer, chunks[i]), chunks, i + 1)


(***************************************************************************)
(* Compression bridge.  pako is an external library; its zlib streams are  *)
(* modelled by the stored-block encoding of RFC 1950/1951: header 78 01,   *)
(* one final stored block (01, LEN, NLEN little-endian, the bytes), and    *)
(* the big-endian Adler-32 of the bytes.  Inflating anything else fails.   *)
(***************************************************************************)

ADLER_MOD == 65521

\* st holds the index i and the two running sums
RECURSIVE AdlerLoop(_, _)
AdlerLoop(st, data) ==
  IF st.i > Len(data) THEN st
  ELSE AdlerLoop([i |-> st.i + 1,
                  a |-> (st.a + data[st.i]) % ADLER_MOD,
                  b |-> (st.b + ((st.a + data[st.i]) % ADLER_MOD)) % ADLER_MOD], data)

Adler32(data) ==
  LET s == AdlerLoop([i |-> 1, a |-> 1, b |-> 0], data)
  IN  <<s.b \div 256, s.b % 256, s.a \div 256, s.a % 256>>

\* pako.deflate(data)
Deflate(data) ==
  LET n == Len(data)
  IN  <<120, 1, 1, n % 256, n \div 256, 255 - (n % 256), 255 - (n \div 256)>>
      \o data \o Adler32(data)

\* pako.inflate(compressed): the bytes, or Nothing where pako throws
Inflate(compressed) ==
  IF Len(compressed) < 11 THEN Nothing
  ELSE LET n    == compressed[4] + 256 * compressed[5]
           data == Slice(compressed, 7, 7 + n)
       IN  IF /\ compressed[1] = 120 /\ compressed[2] = 1 /\ compressed[3] = 1
              /\ compressed[6] = 255 - compressed[4]
              /\ compressed[7] = 255 - compressed[5]
              /\ Len(compressed) >= 11 + n
              /\ Slice(compressed, 7 + n, 11 + n) = Adler32(data)
           THEN Bytes(data)
           ELSE Nothing

(***************************************************************************)
(* Scanline pixel model                                                    *)
(***************************************************************************)

\* chunks.filter(c => c.type === type)
RECURSIVE ChunksOfType(_, _)
ChunksOfType(chunks, type) ==
  IF chunks = << >> THEN << >>
  ELSE (IF Head(chunks).type = type THEN <<Head(chunks)>> ELSE << >>)
       \o ChunksOfType(Tail(chunks), type)

ChannelsOf(colorType) ==
  CASE colorType = 0 -> 1
    [] colorType = 2 -> 3
    [] colorType = 3 -> 1
    [] colorType = 4 -> 2
    [] colorType = 6 -> 4
    [] OTHER -> 4

\* Math.ceil(a / b) for a >= 0, b > 0
CeilDiv(a, b) == (a + b - 1) \div b

\* data[i] (0-based); an index past the end reads undefined, which the
\* arithmetic and the typed-array stores of the source turn into 0
At(data, i) == IF i >= 0 /\ i < Len(data) THEN data[i + 1] ELSE 0

\* the record parseIHDR returns for the header fields read
ImageInfo(width, height, bitDepth, colorType) ==
  [ width |-> width, height |-> height, bitDepth |-> bitDepth,
    colorType |-> colorType,
    bytesPerPixel |-> CeilDiv(ChannelsOf(colorType) * bitDepth, 8),
    scanlineLength |-> 1 + width * CeilDiv(ChannelsOf(colorType) * bitDepth, 8),
    channels |-> ChannelsOf(colorType) ]

\* data = buffer.slice(ihdr.dataOffset, ihdr.dataOffset + 13)
HeaderFields(data) ==
  ImageInfo(ReadU32(data, 0), ReadU32(data, 4), At(data, 8), At(data, 9))

parseIHDR(buffer, chunks) ==
  IF ChunksOfType(chunks, T_IHDR) = << >> THEN NO_IMAGE_INFO
  ELSE HeaderFields(Slice(buffer, ChunksOfType(chunks, T_IHDR)[1].dataOffset,
                          ChunksOfType(chunks, T_IHDR)[1].dataOffset + 13))

\* the concatenated data of the IDAT chunks, in chunk order
RECURSIVE ConcatData(_, _)
ConcatData(buffer, idatChunks) ==
  IF idatChunks = << >> THEN << >>
  ELSE Slice(buffer, Head(idatChunks).dataOffset,
             Head(idatChunks).dataOffset + Head(idatChunks).dataLength)
       \o ConcatData(buffer, Tail(idatChunks))

\* decompressIDAT(buffer, chunks): the pixel bytes, or Nothing (null)
decompressIDAT(buffer, chunks) ==
  IF ChunksOfType(chunks, T_IDAT) = << >> THEN Nothing
  ELSE Inflate(ConcatData(buffer, ChunksOfType(chunks, T_IDAT)))

\* (n >>> 24) & 0xFF, (n >>> 16) & 0xFF, (n >>> 8) & 0xFF, n & 0xFF
U32Bytes(n) == <<(n \div 16777216) % 256, (n \div 65536) % 256, (n \div 256) % 256, n % 256>>

\* the bytes of the new IDAT chunk: length, type, data, CRC of type and data
IdatChunkBytes(compressed) ==
  U32Bytes(Len(compressed)) \o T_IDAT \o compressed
  \o crc32(T_IDAT \o compressed, 0, 4 + Len(compressed))

\* everything before the first IDAT chunk, the new chunk, everything after
\* the last IDAT chunk
SpliceIdat(buffer, idatChunks, newChunk) ==
  Slice(buffer, 0, idatChunks[1].offset)
  \o newChunk
  \o Slice(buffer, idatChunks[Len(idatChunks)].offset + idatChunks[Len(idatChunks)].length,
           Len(buffer))

\* The buffer recompressAndRebuildBuffer builds from the file buffer, its
\* chunk list and the pixel bytes (the chunk list holds an IDAT chunk).
RebuildBuffer(buffer, chunks, pixels) ==
  SpliceIdat(buffer, ChunksOfType(chunks, T_IDAT), IdatChunkBytes(Deflate(pixels)))


(***************************************************************************)
(* Effect library (the two registry entries the layer stack is exercised   *)
(* with).  apply returns the bytes and whether it returned its argument    *)
(* itself (`same`) instead of a newly allocated array.                     *)
(***************************************************************************)

E_PIXEL_SORT     == "pixel-sort"
E_COLOR_QUANTIZE == "color-quantize"
E_NEIGHBOR_DRIFT == "neighbor-drift"

\* the parameters an effect declares: id and default of each, in order
Parameters(effectId) ==
  CASE effectId = E_PIXEL_SORT ->
         << [id |-> "threshold", default |-> 128],
            [id |-> "rowSkip", default |-> 4],
            [id |-> "maxLength", default |-> 30] >>
    [] effectId = E_COLOR_QUANTIZE ->
         << [id |-> "levels", default |-> 16],
            [id |-> "dither", default |-> FALSE] >>
    [] effectId = E_NEIGHBOR_DRIFT ->
         << [id |-> "memory", default |-> 4],
            [id |-> "blend", default |-> 20],
            [id |-> "direction", default |-> "horizontal"] >>

\* the ids among the declared parameters
ParameterIds(parameters) == {parameters[i].id : i \in 1..Len(parameters)}

\* the value the loop leaves in params[id]: that of the last parameter
\* declared with the id
LastDefault(parameters, id) ==
  parameters[CHOOSE i \in 1..Len(parameters) :
               /\ parameters[i].id = id
               /\ \A j \in (i + 1)..Len(parameters) : parameters[j].id # id].default

\* for (const param of effect.parameters) params[param.id] = param.default
DefaultsOf(parameters) ==
  [id \in ParameterIds(parameters) |-> LastDefault(parameters, id)]

\* getDefaultParams(effectId): every declared parameter at its default
getDefaultParams(effectId) == DefaultsOf(Parameters(effectId))

\* result[i] = v, ignored outside the array
Put(data, i, v) ==
  IF i >= 0 /\ i < Len(data) THEN [data EXCEPT ![i + 1] = v] ELSE data

\* interval.sort((a, b) => a.brightness - b.brightness): stable insertion
\* of p into the already sorted seq (brightness = (r+g+b)/3 orders as r+g+b)
RECURSIVE InsertByBrightness(_, _)
InsertByBrightness(sorted, p) ==
  IF sorted = << >> THEN <<p>>
  ELSE IF sorted[Len(sorted)].sum <= p.sum THEN Append(sorted, p)
  ELSE Append(InsertByBrightness(SubSeq(sorted, 1, Len(sorted) - 1), p),
              sorted[Len(sorted)])

RECURSIVE SortByBrightness(_, _, _)
SortByBrightness(interval, i, acc) ==
  IF i > Len(interval) THEN acc
  ELSE SortByBrightness(interval, i + 1, InsertByBrightness(acc, interval[i]))

\* the writes of one sorted interval into result
RECURSIVE WriteInterval(_, _, _, _, _, _)
WriteInterval(result, interval, i, rowStart, intervalStart, bytesPerPixel) ==
  IF i >= Len(interval) THEN result
  ELSE LET destOffset == rowStart + (intervalStart + i) * bytesPerPixel
           p  == interval[i + 1]
           r1 == Put(result, destOffset, p.r)
           r2 == Put(r1, destOffset + 1, p.g)
           r3 == Put(r2, destOffset + 2, p.b)
           r4 == IF bytesPerPixel > 3 THEN Put(r3, destOffset + 3, p.a) ELSE r3
       IN  WriteInterval(r4, interval, i + 1, rowStart, intervalStart, bytesPerPixel)

\* the loop over x = 0..width of one row of pixel-sort
RECURSIVE SortRowLoop(_, _, _, _, _, _, _)
SortRowLoop(result, pixels, x, intervalStart, rowStart, bytesPerPixel, params) ==
  LET width == Len(pixels)
  IN  IF x > width THEN result
      ELSE LET bright == IF x < width
                         THEN pixels[x + 1].sum > 3 * params.threshold
                         ELSE FALSE
           IN  IF bright /\ intervalStart = -1
               THEN SortRowLoop(result, pixels, x + 1, x, rowStart, bytesPerPixel, params)
               ELSE IF ~bright /\ intervalStart # -1
               THEN LET len == Min(x - intervalStart, params.maxLength)
                        interval == SubSeq(pixels, intervalStart + 1, intervalStart + len)
                        sorted == SortByBrightness(interval, 1, << >>)
                    IN  SortRowLoop(
                          WriteInterval(result, sorted, 0, rowStart, intervalStart,
                                        bytesPerPixel),
                          pixels, x + 1, -1, rowStart, bytesPerPixel, params)
               ELSE SortRowLoop(result, pixels, x + 1, intervalStart, rowStart,
                                bytesPerPixel, params)

\* the loop over the rows y, y + rowSkip, ... of pixel-sort
RECURSIVE SortRows(_, _, _, _, _)
SortRows(result, pixelData, imageInfo, params, y) ==
  IF y >= imageInfo.height THEN result
  ELSE LET rowStart == y * imageInfo.scanlineLength + 1
           bpp == imageInfo.bytesPerPixel
           pixels == [x \in 1..imageInfo.width |->
                        LET offset == rowStart + (x - 1) * bpp
                        IN  [ r |-> At(pixelData, offset),
                              g |-> At(pixelData, offset + 1),
                              b |-> At(pixelData, offset + 2),
                              sum |-> At(pixelData, offset) + At(pixelData, offset + 1)
                                      + At(pixelData, offset + 2),
                              a |-> IF bpp > 3 THEN At(pixelData, offset + 3) ELSE 255 ]]
       IN  SortRows(SortRowLoop(result, pixels, 0, -1, rowStart, bpp, params),
                    pixelData, imageInfo, params, y + params.rowSkip)

PixelSortApply(pixelData, imageInfo, params, seed) ==
  IF imageInfo.bytesPerPixel < 3 THEN [same |-> TRUE, data |-> pixelData]
  ELSE [same |-> FALSE, data |-> SortRows(pixelData, pixelData, imageInfo, params, 0)]

\* Math.round(val / step) * step stored into a Uint8Array, step = 255 / (levels - 1)
\* (exact for the level counts whose step is an integer: 2, 4, 6, 16, 18)
QuantizeValue(val, levels) ==
  (((2 * val * (levels - 1)) + 255) \div 510) * (255 \div (levels - 1))

\* color-quantize with dither off (the seeded generator is created, never drawn)
ColorQuantizeApply(pixelData, imageInfo, params, seed) ==
  LET bpp == imageInfo.bytesPerPixel
      sl  == imageInfo.scanlineLength
      touched(i) ==
        /\ i \div sl < imageInfo.height
        /\ (i % sl) >= 1
        /\ ((i % sl) - 1) \div bpp < imageInfo.width
        /\ ((i % sl) - 1) % bpp < Min(3, bpp)
  IN  [same |-> FALSE,
       data |-> [k \in 1..Len(pixelData) |->
                   IF touched(k - 1) THEN QuantizeValue(pixelData[k], params.levels)
                   ELSE pixelData[k]]]

(***************************************************************************)
(* The shared simplex-noise generator.  simplexNoise is one object for all *)
(* effects; its table perm is rewritten as a whole by seed(s), from a      *)
(* generator created from s, so the table is named by the s of the seed    *)
(* call that built it.  The module seeds it with 0 when it is loaded.      *)
(***************************************************************************)

\* the s of the seed(s) call at module load
INITIAL_NOISE_SEED == 0

\* the seeds of the noise layers, and with the initial one the tables the
\* generator can hold
NoiseSeeds == {4, 5}

PermTables == NoiseSeeds \cup {INITIAL_NOISE_SEED}

\* grad3[perm[perm[0]] & 7][0] of the table seed(s) builds (the Fisher-Yates
\* shuffle of 0..255 drawn from createSeededRNG(s)), for the tables of
\* PermTables: the gradient's x component at the lattice cell (0, 0)
GradientX(perm) ==
  CASE perm = 0 -> -1
    [] perm = 4 -> 0
    [] perm = 5 -> 1

\* (simplexNoise.noise2D(x * 0.05, y * 0.05) + 1) * 0.5 in thousandths, for
\* the pixels (0, 0) and (1, 0) of an image of one row: the noise is 0 at
\* the origin and 70 * 0.4975^4 * 0.05 * grad3[..][0] at (0.05, 0)
NoiseMilli(perm, x, y) ==
  IF x = 0 THEN 500 ELSE 500 + 107 * GradientX(perm)

\* logScale(blend, 100, 0.8) = (blend / 100)^2.5 * 0.8 in thousandths, for
\* the values of the blend parameter the layers take
BlendMilli(blend) ==
  CASE blend = 20 -> 14
    [] blend = 100 -> 800

\* the sum of channel c over the pixels from..to of row y
RECURSIVE WindowSum(_, _, _, _, _, _)
WindowSum(pixelData, imageInfo, y, c, from, to) ==
  IF from > to THEN 0
  ELSE At(pixelData, y * imageInfo.scanlineLength + 1 + from * imageInfo.bytesPerPixel + c)
       + WindowSum(pixelData, imageInfo, y, c, from + 1, to)

\* Math.round(p * (1 - blend * noise) + avgVal * blend * noise), avgVal the
\* sum over the len pixels of the window divided by len, blend and noise in
\* thousandths
DriftValue(p, sum, len, blend, noise) ==
  ((p * len * 1000000 + (sum - p * len) * blend * noise + 500000 * len)
     \div (len * 1000000)) % 256

\* the horizontal pass of neighbor-drift, reading the table perm.  The
\* vertical pass changes nothing in an image of one row: its window never
\* holds more than one pixel.
DriftRows(pixelData, imageInfo, params, perm) ==
  LET bpp == imageInfo.bytesPerPixel
      sl  == imageInfo.scanlineLength
      y(i) == i \div sl
      x(i) == ((i % sl) - 1) \div bpp
      c(i) == ((i % sl) - 1) % bpp
      first(i) == Max(0, x(i) - params.memory + 1)
      touched(i) ==
        /\ params.direction \in {"horizontal", "diagonal"}
        /\ y(i) < imageInfo.height
        /\ (i % sl) >= 1
        /\ x(i) < imageInfo.width
        /\ c(i) < Min(3, bpp)
        /\ x(i) >= 1
  IN  [k \in 1..Len(pixelData) |->
         IF touched(k - 1)
         THEN DriftValue(pixelData[k],
                         WindowSum(pixelData, imageInfo, y(k - 1), c(k - 1),
                                   first(k - 1), x(k - 1)),
                         x(k - 1) - first(k - 1) + 1,
                         BlendMilli(params.blend),
                         NoiseMilli(perm, x(k - 1), y(k - 1)))
         ELSE pixelData[k]]

\* a faulty neighbor-drift: the noise is read without seeding the generator
NeighborDriftUnseeded(pixelData, imageInfo, params, seed, perm) ==
  [same |-> FALSE, data |-> DriftRows(pixelData, imageInfo, params, perm),
   perm |-> perm]

\* neighbor-drift: simplexNoise.seed(seed), then the passes; perm is the
\* table the generator holds when the effect is called
NeighborDriftApply(pixelData, imageInfo, params, seed, perm) ==
  [same |-> FALSE, data |-> DriftRows(pixelData, imageInfo, params, seed),
   perm |-> seed]

\* the result of an effect that leaves the noise generator alone
KeepsPerm(out, perm) == [same |-> out.same, data |-> out.data, perm |-> perm]

\* effectRegistry.get(effectId).apply(pixelData, imageInfo, params, seed),
\* called while the noise generator holds the table perm: the result and the
\* table the generator holds after the call
EffectApply(effectId, pixelData, imageInfo, params, seed, perm) ==
  CASE effectId = E_PIXEL_SORT ->
         KeepsPerm(PixelSortApply(pixelData, imageInfo, params, seed), perm)
    [] effectId = E_COLOR_QUANTIZE ->
         KeepsPerm(ColorQuantizeApply(pixelData, imageInfo, params, seed), perm)
    [] effectId = E_NEIGHBOR_DRIFT ->
         NeighborDriftApply(pixelData, imageInfo, params, seed, perm)


(***************************************************************************)
(* Editor state.  Pixel buffers are reference values in the source: the    *)
(* same Uint8Array can be held by state.pixelData, by                      *)
(* layerStack.originalPixelData and by entries of cachedResults at once.   *)
(* heap holds the arrays; those three hold indices into it (or NULL).      *)
(***************************************************************************)

VARIABLES
  buffer,             \* state.buffer: the file bytes, NO_BUFFER before a load
  originalBuffer,     \* state.originalBuffer: the copy of the file taken at load
  chunks,             \* state.chunks
  errors,             \* state.errors
  isValid,            \* state.isValid
  history,            \* state.history
  historyIndex,       \* state.historyIndex
  editMode,           \* state.editMode: "pixel" or "raw"
  pixelData,          \* state.pixelData: reference or NULL
  imageInfo,          \* state.imageInfo: record or NO_IMAGE_INFO
  layers,             \* state.layerStack.layers
  originalPixelData,  \* state.layerStack.originalPixelData: reference or NULL
  cachedResults,      \* state.layerStack.cachedResults: layer id -> reference
  dirtyFromIndex,     \* state.layerStack.dirtyFromIndex
  heap,               \* the live pixel arrays
  renderStackTimeout, \* TRUE while the debounce timer is armed
  layerIdCounter,     \* number of layer ids generated for the loaded file
  simplexPerm         \* the table of the shared simplexNoise generator

vars == << buffer, originalBuffer, chunks, errors, isValid, history, historyIndex, editMode,
           pixelData, imageInfo, layers, originalPixelData, cachedResults,
           dirtyFromIndex, heap, renderStackTimeout, layerIdCounter, simplexPerm >>

\* the state as one record, as the handlers read it
Cur ==
  [ buffer |-> buffer, originalBuffer |-> originalBuffer,
    chunks |-> chunks, errors |-> errors, isValid |-> isValid,
    history |-> history, historyIndex |-> historyIndex, editMode |-> editMode,
    pixelData |-> pixelData, imageInfo |-> imageInfo, layers |-> layers,
    originalPixelData |-> originalPixelData, cachedResults |-> cachedResults,
    dirtyFromIndex |-> dirtyFromIndex, heap |-> heap,
    renderStackTimeout |-> renderStackTimeout, layerIdCounter |-> layerIdCounter,
    simplexPerm |-> simplexPerm ]

EmptyMap == << >>

\* map.delete(key)
MapDelete(map, key) == [k \in (DOMAIN map) \ {key} |-> map[k]]

\* map.set(key, value)
MapSet(map, key, value) ==
  [k \in (DOMAIN map) \cup {key} |-> IF k = key THEN value ELSE map[k]]

\* The arrays still referenced, renumbered in a fixed order (original,
\* pixelData, cached results by layer id); unreferenced arrays are garbage.
RECURSIVE SortedIds(_)
SortedIds(S) ==
  IF S = {} THEN << >>
  ELSE LET m == CHOOSE x \in S : \A y \in S : x <= y
       IN  <<m>> \o SortedIds(S \ {m})

RECURSIVE DistinctRefs(_, _)
DistinctRefs(refs, acc) ==
  IF refs = << >> THEN acc
  ELSE DistinctRefs(Tail(refs),
         IF Head(refs) = NULL \/ \E i \in 1..Len(acc) : acc[i] = Head(refs)
         THEN acc ELSE Append(acc, Head(refs)))

Collect(st) ==
  LET ids   == SortedIds(DOMAIN st.cachedResults)
      roots == <<st.originalPixelData, st.pixelData>>
               \o [i \in 1..Len(ids) |-> st.cachedResults[ids[i]]]
      order == DistinctRefs(roots, << >>)
      new(r) == IF r = NULL THEN NULL
                ELSE CHOOSE i \in 1..Len(order) : order[i] = r
  IN  [st EXCEPT !.heap = [i \in 1..Len(order) |-> st.heap[order[i]]],
                 !.originalPixelData = new(st.originalPixelData),
                 !.pixelData = new(st.pixelData),
                 !.cachedResults = [k \in DOMAIN st.cachedResults |->
                                      new(st.cachedResults[k])]]

\* the next state is st
Install(st) ==
  /\ buffer' = st.buffer
  /\ originalBuffer' = st.originalBuffer
  /\ chunks' = st.chunks
  /\ errors' = st.errors
  /\ isValid' = st.isValid
  /\ history' = st.history
  /\ historyIndex' = st.historyIndex
  /\ editMode' = st.editMode
  /\ pixelData' = st.pixelData
  /\ imageInfo' = st.imageInfo
  /\ layers' = st.layers
  /\ originalPixelData' = st.originalPixelData
  /\ cachedResults' = st.cachedResults
  /\ dirtyFromIndex' = st.dirtyFromIndex
  /\ heap' = st.heap
  /\ renderStackTimeout' = st.renderStackTimeout
  /\ layerIdCounter' = st.layerIdCounter
  /\ simplexPerm' = st.simplexPerm

\* the bytes of the array a reference names
Deref(st, ref) == st.heap[ref]

(***************************************************************************)
(* Re-encoding                                                             *)
(***************************************************************************)

\* state.chunks, state.errors, state.isValid = the parse result
SetParsed(st, buf, parsed) ==
  [st EXCEPT !.buffer = buf, !.chunks = parsed.chunks,
             !.errors = parsed.errors, !.isValid = parsed.isValid]

\* state.buffer = buf followed by the re-parse of it
WithParsed(st, buf) == SetParsed(st, buf, parsePNG(buf))

\* a faulty end of the call: what was built is stored before the exception
RebuiltPartly(st, built) ==
  IF built.ok THEN WithParsed(st, built.data)
  ELSE [st EXCEPT !.buffer = built.data]

\* the end of recompressAndRebuildBuffer: built is the new buffer at the end
\* of the try block, or Nothing where pako.deflate or the building of the
\* new buffer threw and the catch block logged it
Rebuilt(st, built) ==
  IF built.ok THEN WithParsed(st, built.data) ELSE st

\* recompressAndRebuildBuffer(), where threw tells whether an exception was
\* thrown inside its try block
recompressWith(st, threw) ==
  IF st.pixelData = NULL \/ st.imageInfo = NO_IMAGE_INFO THEN st
  ELSE IF ChunksOfType(st.chunks, T_IDAT) = << >> THEN st
  ELSE Rebuilt(st, IF threw THEN Nothing
                   ELSE Bytes(RebuildBuffer(st.buffer, st.chunks,
                                            Deref(st, st.pixelData))))

recompressAndRebuildBuffer(st) == recompressWith(st, FALSE)

\* the call in which an exception is thrown
recompressThrowing(st) == recompressWith(st, TRUE)

(***************************************************************************)
(* Layer stack engine                                                      *)
(***************************************************************************)

\* the cache evictions of invalidateFromLayer: layers i, i+1, ... (0-based)
RECURSIVE EvictFrom(_, _, _)
EvictFrom(cache, lyrs, i) ==
  IF i >= Len(lyrs) THEN cache
  ELSE EvictFrom(MapDelete(cache, lyrs[i + 1].id), lyrs, i + 1)

\* a faulty invalidateFromLayer: marks the layers dirty, evicts nothing
invalidateKeepingCache(st, index) == [st EXCEPT !.dirtyFromIndex = index]

invalidateFromLayer(st, index) ==
  [st EXCEPT !.dirtyFromIndex = index,
             !.cachedResults = EvictFrom(st.cachedResults, st.layers, index)]

\* a faulty call: apply writes its result into its argument and returns it
RenderStepInPlace(acc, layerId, out) ==
  [acc EXCEPT !.heap = [acc.heap EXCEPT ![acc.data] = out.data],
              !.cache = MapSet(acc.cache, layerId, acc.data),
              !.perm = out.perm]

\* data = effect.apply(data, ...); cachedResults.set(layer.id, data): out is
\* what apply returned, a new array unless it returned its argument
RenderStep(acc, layerId, out) ==
  IF out.same
  THEN [acc EXCEPT !.cache = MapSet(acc.cache, layerId, acc.data),
                   !.perm = out.perm]
  ELSE [data |-> Len(acc.heap) + 1, heap |-> Append(acc.heap, out.data),
        cache |-> MapSet(acc.cache, layerId, Len(acc.heap) + 1),
        perm |-> out.perm]

\* the for loop of renderLayerStack from layer i (0-based) on; acc holds the
\* running reference `data`, the cache and the heap
RECURSIVE RenderLoop(_, _, _)
RenderLoop(st, i, acc) ==
  IF i >= Len(st.layers) THEN acc
  ELSE LET layer == st.layers[i + 1]
       IN  IF ~layer.enabled THEN RenderLoop(st, i + 1, acc)
           ELSE IF layer.id \in DOMAIN acc.cache /\ i >= st.dirtyFromIndex
           THEN RenderLoop(st, i + 1, [acc EXCEPT !.data = acc.cache[layer.id]])
           ELSE RenderLoop(st, i + 1,
                  RenderStep(acc, layer.id,
                             EffectApply(layer.effectId, acc.heap[acc.data],
                                         st.imageInfo, layer.params, layer.seed,
                                         acc.perm)))

\* dirtyFromIndex = -1; state.pixelData = data
RenderDone(st, acc) ==
  [st EXCEPT !.heap = acc.heap, !.cachedResults = acc.cache,
             !.dirtyFromIndex = -1, !.pixelData = acc.data,
             !.simplexPerm = acc.perm]

\* the parsePNG(state.buffer) that ends renderLayerStack
Reparse(st) == WithParsed(st, st.buffer)

renderLayerStack(st) ==
  IF st.originalPixelData = NULL \/ st.imageInfo = NO_IMAGE_INFO THEN st
  ELSE Reparse(
         recompressAndRebuildBuffer(
           RenderDone(st, RenderLoop(st, 0, [data |-> st.originalPixelData,
                                             heap |-> st.heap,
                                             cache |-> st.cachedResults,
                                             perm |-> st.simplexPerm]))))


(***************************************************************************)
(* Edit history and byte editing                                           *)
(***************************************************************************)

\* the history size limit of pushHistory
HISTORY_LIMIT == 100

\* a faulty pushHistory: appends without dropping the entries beyond the
\* current position
pushHistoryKeepingRedo(st, entry) ==
  [st EXCEPT !.history = Append(st.history, entry),
             !.historyIndex = st.historyIndex + 1]

\* a faulty pushHistory: evicts the oldest entry without moving the position
pushHistoryNoAdjust(st, entry) ==
  IF st.historyIndex + 2 > HISTORY_LIMIT
  THEN [st EXCEPT !.history = Tail(Append(SubSeq(st.history, 1, st.historyIndex + 1), entry)),
                  !.historyIndex = st.historyIndex + 1]
  ELSE [st EXCEPT !.history = Append(SubSeq(st.history, 1, st.historyIndex + 1), entry),
                  !.historyIndex = st.historyIndex + 1]

pushHistory(st, entry) ==
  LET kept == SubSeq(st.history, 1, st.historyIndex + 1)
      h    == Append(kept, entry)
  IN  IF Len(h) > HISTORY_LIMIT
      THEN [st EXCEPT !.history = Tail(h), !.historyIndex = Len(h) - 1 - 1]
      ELSE [st EXCEPT !.history = h, !.historyIndex = Len(h) - 1]

\* entry.type && entry.type.startsWith('layer-')
IsLayerEntry(entry) ==
  entry.type \in {"layer-add", "layer-remove", "layer-param", "layer-toggle",
                  "layer-reorder"}

\* JSON.parse(JSON.stringify(layers)): a fresh list of fresh layer objects
\* (ids and effect ids are strings, params finite numbers and booleans,
\* seeds integers, all of which the round trip keeps)
CopyLayers(lyrs) ==
  [i \in 1..Len(lyrs) |->
     [ id |-> lyrs[i].id, effectId |-> lyrs[i].effectId, enabled |-> lyrs[i].enabled,
       params |-> [k \in DOMAIN lyrs[i].params |-> lyrs[i].params[k]],
       seed |-> lyrs[i].seed ]]

UsesPixelBuffer(st) == st.editMode = "pixel" /\ st.pixelData # NULL

\* getActiveBuffer(), as bytes
ActiveBytes(st) ==
  IF UsesPixelBuffer(st) THEN Deref(st, st.pixelData) ELSE st.buffer

\* writes into the array getActiveBuffer() returned
WriteActive(st, off, data) ==
  IF UsesPixelBuffer(st)
  THEN [st EXCEPT !.heap[st.pixelData] = WriteBytes(@, off, data)]
  ELSE [st EXCEPT !.buffer = WriteBytes(@, off, data)]

\* a faulty choice of buffer: the file buffer whatever the entry's mode
WriteRawAlways(st, mode, off, data) ==
  [st EXCEPT !.buffer = WriteBytes(@, off, data)]

\* writes into entry.mode === 'pixel' ? state.pixelData : state.buffer
WriteByMode(st, mode, off, data) ==
  IF mode = "pixel"
  THEN [st EXCEPT !.heap[st.pixelData] = WriteBytes(@, off, data)]
  ELSE [st EXCEPT !.buffer = WriteBytes(@, off, data)]

\* a faulty afterEdit: the raw branch fixes the CRCs and skips the re-parse
afterEditNoReparse(st, threw) ==
  IF UsesPixelBuffer(st) THEN recompressWith(st, threw)
  ELSE [st EXCEPT !.buffer = RecalculateAll(st.buffer, st.chunks, 1)]

\* afterEdit(), where threw tells whether an exception is thrown inside
\* its call of recompressAndRebuildBuffer
afterEditWith(st, threw) ==
  IF UsesPixelBuffer(st) THEN recompressWith(st, threw)
  ELSE WithParsed(st, RecalculateAll(st.buffer, st.chunks, 1))

afterEdit(st) == afterEditWith(st, FALSE)

ByteEntry(type, offset, mode, oldData, newData) ==
  [type |-> type, offset |-> offset, mode |-> mode, oldData |-> oldData,
   newData |-> newData]

LayerEntry(type, oldLayers, newLayers) ==
  [type |-> type, offset |-> 0, mode |-> "pixel", oldLayers |-> oldLayers,
   newLayers |-> newLayers]

\* editByte(offset, newValue), where threw tells whether an exception is
\* thrown inside the recompressAndRebuildBuffer of its afterEdit
editByteWith(st, offset, newValue, threw) ==
  LET buf == ActiveBytes(st)
  IN  IF offset >= Len(buf) THEN st
      ELSE IF buf[offset + 1] = newValue THEN st
      ELSE afterEditWith(
             WriteActive(
               pushHistory(st, ByteEntry("edit", offset, st.editMode,
                                         <<buf[offset + 1]>>, <<newValue>>)),
               offset, <<newValue>>),
             threw)

editByte(st, offset, newValue) == editByteWith(st, offset, newValue, FALSE)

\* fillSelection(value) with the selection selStart..selEnd
fillSelection(st, selStart, selEnd, value) ==
  LET buf    == ActiveBytes(st)
      start  == Min(selStart, selEnd)
      end    == Max(selStart, selEnd)
      length == end - start + 1
  IN  afterEdit(
        WriteActive(
          pushHistory(st, ByteEntry("fill", start, st.editMode,
                                    Slice(buf, start, start + length),
                                    Filled(length, value))),
          start, Filled(length, value)))

\* randomizeSelection() where crypto.getRandomValues produced newData
randomizeSelection(st, selStart, selEnd, newData) ==
  LET buf    == ActiveBytes(st)
      start  == Min(selStart, selEnd)
      end    == Max(selStart, selEnd)
      length == end - start + 1
  IN  afterEdit(
        WriteActive(
          pushHistory(st, ByteEntry("randomize", start, st.editMode,
                                    Slice(buf, start, start + length), newData)),
          start, newData))

undo(st) ==
  IF st.historyIndex < 0 THEN st
  ELSE LET entry == st.history[st.historyIndex + 1]
       IN  IF IsLayerEntry(entry)
           THEN renderLayerStack(
                  invalidateFromLayer(
                    [st EXCEPT !.layers = CopyLayers(entry.oldLayers),
                               !.historyIndex = st.historyIndex - 1], 0))
           ELSE LET st1 == [st EXCEPT !.editMode = entry.mode]
                    st2 == WriteByMode(st1, entry.mode, entry.offset, entry.oldData)
                IN  afterEdit([st2 EXCEPT !.historyIndex = st.historyIndex - 1])

redo(st) ==
  IF st.historyIndex >= Len(st.history) - 1 THEN st
  ELSE LET entry == st.history[st.historyIndex + 2]
           st0   == [st EXCEPT !.historyIndex = st.historyIndex + 1]
       IN  IF IsLayerEntry(entry)
           THEN renderLayerStack(
                  invalidateFromLayer(
                    [st0 EXCEPT !.layers = CopyLayers(entry.newLayers)], 0))
           ELSE LET st1 == [st0 EXCEPT !.editMode = entry.mode]
                IN  afterEdit(WriteByMode(st1, entry.mode, entry.offset, entry.newData))

(***************************************************************************)
(* Layer management                                                        *)
(***************************************************************************)

\* layers.findIndex(l => l.id === layerId), 0-based, -1 when absent
IndexOfLayer(lyrs, layerId) ==
  IF \E i \in 1..Len(lyrs) : lyrs[i].id = layerId
  THEN (CHOOSE i \in 1..Len(lyrs) :
          lyrs[i].id = layerId /\ \A j \in 1..(i - 1) : lyrs[j].id # layerId) - 1
  ELSE -1

\* array.splice(index, 1)
RemoveAt(seq, index) ==
  [i \in 1..(Len(seq) - 1) |-> IF i <= index THEN seq[i] ELSE seq[i + 1]]

\* array.splice(index, 0, item)
InsertAt(seq, index, item) ==
  [i \in 1..(Len(seq) + 1) |->
     IF i <= index THEN seq[i] ELSE IF i = index + 1 THEN item ELSE seq[i - 1]]

\* addLayer(effectId) where generateLayerId and Math.random gave id and seed
\* a faulty addLayer: the new layer is put in front of the list
addLayerInFront(st, effectId, seed) ==
  IF st.originalPixelData = NULL THEN st
  ELSE LET layer == [ id |-> st.layerIdCounter + 1, effectId |-> effectId,
                      enabled |-> TRUE, params |-> getDefaultParams(effectId),
                      seed |-> seed ]
           oldLayers == CopyLayers(st.layers)
           newList   == <<layer>> \o st.layers
           st1 == [st EXCEPT !.layers = newList,
                             !.layerIdCounter = st.layerIdCounter + 1]
           st2 == pushHistory(st1, LayerEntry("layer-add", oldLayers, CopyLayers(newList)))
       IN  renderLayerStack(invalidateFromLayer(st2, 0))

addLayer(st, effectId, seed) ==
  IF st.originalPixelData = NULL THEN st
  ELSE LET layer == [ id |-> st.layerIdCounter + 1, effectId |-> effectId,
                      enabled |-> TRUE, params |-> getDefaultParams(effectId),
                      seed |-> seed ]
           oldLayers == CopyLayers(st.layers)
           newList   == Append(st.layers, layer)
           st1 == [st EXCEPT !.layers = newList,
                             !.layerIdCounter = st.layerIdCounter + 1]
           st2 == pushHistory(st1, LayerEntry("layer-add", oldLayers, CopyLayers(newList)))
       IN  renderLayerStack(invalidateFromLayer(st2, Len(newList) - 1))

removeLayer(st, layerId) ==
  LET index == IndexOfLayer(st.layers, layerId)
  IN  IF index = -1 THEN st
      ELSE LET oldLayers == CopyLayers(st.layers)
               newList   == RemoveAt(st.layers, index)
               st1 == pushHistory([st EXCEPT !.layers = newList],
                                  LayerEntry("layer-remove", oldLayers, CopyLayers(newList)))
           IN  renderLayerStack(invalidateFromLayer(st1, index))

\* a faulty updateLayerParam: the oldLayers snapshot shares the live layer
\* objects, so the write to layer.params shows in it
updateLayerParamAliased(st, layerId, paramId, value) ==
  LET index == IndexOfLayer(st.layers, layerId)
  IN  IF index = -1 THEN st
      ELSE LET newList == [st.layers EXCEPT ![index + 1].params =
                             [k \in (DOMAIN @) \cup {paramId} |->
                                IF k = paramId THEN value ELSE @[k]]]
               st1 == pushHistory([st EXCEPT !.layers = newList],
                                  LayerEntry("layer-param", newList, CopyLayers(newList)))
           IN  [invalidateFromLayer(st1, index) EXCEPT !.renderStackTimeout = TRUE]

\* updateLayerParam: the render is only scheduled (debouncedRenderStack)
updateLayerParam(st, layerId, paramId, value) ==
  LET index == IndexOfLayer(st.layers, layerId)
  IN  IF index = -1 THEN st
      ELSE LET oldLayers == CopyLayers(st.layers)
               newList   == [st.layers EXCEPT ![index + 1].params =
                               [k \in (DOMAIN @) \cup {paramId} |->
                                  IF k = paramId THEN value ELSE @[k]]]
               st1 == pushHistory([st EXCEPT !.layers = newList],
                                  LayerEntry("layer-param", oldLayers, CopyLayers(newList)))
           IN  [invalidateFromLayer(st1, index) EXCEPT !.renderStackTimeout = TRUE]

\* a faulty toggleLayer: disables the layer whatever its state
toggleLayerOff(st, layerId) ==
  LET index == IndexOfLayer(st.layers, layerId)
  IN  IF index = -1 THEN st
      ELSE LET oldLayers == CopyLayers(st.layers)
               newList   == [st.layers EXCEPT ![index + 1].enabled = FALSE]
               st1 == pushHistory([st EXCEPT !.layers = newList],
                                  LayerEntry("layer-toggle", oldLayers, CopyLayers(newList)))
           IN  renderLayerStack(invalidateFromLayer(st1, index))

toggleLayer(st, layerId) ==
  LET index == IndexOfLayer(st.layers, layerId)
  IN  IF index = -1 THEN st
      ELSE LET oldLayers == CopyLayers(st.layers)
               newList   == [st.layers EXCEPT ![index + 1].enabled = ~@]
               st1 == pushHistory([st EXCEPT !.layers = newList],
                                  LayerEntry("layer-toggle", oldLayers, CopyLayers(newList)))
           IN  renderLayerStack(invalidateFromLayer(st1, index))

reorderLayers(st, fromIndex, toIndex) ==
  IF fromIndex = toIndex THEN st
  ELSE LET oldLayers == CopyLayers(st.layers)
           layer     == st.layers[fromIndex + 1]
           newList   == InsertAt(RemoveAt(st.layers, fromIndex), toIndex, layer)
           st1 == pushHistory([st EXCEPT !.layers = newList],
                              LayerEntry("layer-reorder", oldLayers, CopyLayers(newList)))
       IN  renderLayerStack(invalidateFromLayer(st1, Min(fromIndex, toIndex)))

(***************************************************************************)
(* Loading                                                                 *)
(***************************************************************************)

\* the state loadBuffer leaves: pixels is what decompressIDAT returned, kept
\* as state.pixelData, with a copy of it as layerStack.originalPixelData
LoadedState(st, file, parsed, info, pixels) ==
  [ buffer |-> file, originalBuffer |-> file,
    chunks |-> parsed.chunks, errors |-> parsed.errors,
    isValid |-> parsed.isValid, history |-> << >>, historyIndex |-> -1,
    editMode |-> IF pixels.ok THEN "pixel" ELSE "raw",
    pixelData |-> IF pixels.ok THEN 1 ELSE NULL,
    imageInfo |-> info, layers |-> << >>,
    originalPixelData |-> IF pixels.ok THEN 2 ELSE NULL,
    cachedResults |-> EmptyMap, dirtyFromIndex |-> -1,
    heap |-> IF pixels.ok THEN <<pixels.data, pixels.data>> ELSE << >>,
    renderStackTimeout |-> st.renderStackTimeout,
    layerIdCounter |-> 0,
    simplexPerm |-> st.simplexPerm ]

LoadParsed(st, file, parsed) ==
  LoadedState(st, file, parsed, parseIHDR(file, parsed.chunks),
              decompressIDAT(file, parsed.chunks))

\* loadBuffer(file, filename); the armed debounce timer is left as it is
loadBuffer(st, file) == LoadParsed(st, file, parsePNG(file))

\* the mode change without the check for a pixel buffer
setEditModeUnchecked(st, newMode) ==
  IF st.editMode = newMode THEN st ELSE [st EXCEPT !.editMode = newMode]

\* the mode toggle's change handler, asking for newMode
setEditMode(st, newMode) ==
  IF st.editMode = newMode THEN st
  ELSE IF newMode = "pixel" /\ st.pixelData = NULL THEN st
  ELSE [st EXCEPT !.editMode = newMode]


(***************************************************************************)
(* Input files                                                             *)
(***************************************************************************)

MakeChunk(type, data) ==
  U32Bytes(Len(data)) \o type \o data \o crc32(type \o data, 0, 4 + Len(data))

IHDRData(width, height, bitDepth, colorType) ==
  U32Bytes(width) \o U32Bytes(height) \o <<bitDepth, colorType, 0, 0, 0>>

T_TEXT == <<116, 69, 88, 116>>

\* 2x1 RGB, 8 bit: one scanline of filter byte + 2 pixels
PIXELS_RGB == <<0, 200, 200, 200, 128, 128, 128>>

\* an RGB file whose zlib stream is split over two IDAT chunks with a tEXt
\* chunk between them: IHDR, IDAT, tEXt, IDAT, IEND
FILE_SPLIT ==
  PNG_SIGNATURE \o MakeChunk(T_IHDR, IHDRData(2, 1, 8, 2))
  \o MakeChunk(T_IDAT, SubSeq(Deflate(PIXELS_RGB), 1, 7))
  \o MakeChunk(T_TEXT, <<65, 0, 66>>)
  \o MakeChunk(T_IDAT, SubSeq(Deflate(PIXELS_RGB), 8, 18))
  \o MakeChunk(T_IEND, << >>)

\* a file whose IDAT does not inflate
FILE_BROKEN ==
  PNG_SIGNATURE \o MakeChunk(T_IHDR, IHDRData(2, 1, 8, 0))
  \o MakeChunk(T_IDAT, <<1, 2, 3>>) \o MakeChunk(T_IEND, << >>)

Files == <<FILE_SPLIT, FILE_BROKEN>>

(***************************************************************************)
(* Bounds and input sets                                                   *)
(***************************************************************************)

\* the budget of the undo side of the history: a layer entry takes one unit
MaxHistory == 3

\* the units a byte-edit entry (edit, fill, randomize) takes
EditCost == 2

\* layers created per loaded file
MaxLayerIds == 2

\* offsets the byte edits address (in whichever buffer is active): the first
\* colour byte of the pixel buffer (a signature byte of the file buffer), and
\* the low byte of the IHDR length field of the file buffer (past the end of
\* the pixel buffer)
EditOffsets == {1, 11}

EditValues == {7}

\* selections of fill / randomize
Selections == {<<1, 2>>}

FillValues == {7}

\* outcomes of crypto.getRandomValues, per byte
RandomBytes == {7}

Seeds == {1}

EffectIds == {E_PIXEL_SORT, E_COLOR_QUANTIZE}

\* the effects picked for the next layer: any for the first layer of a file,
\* pixel-sort for the later ones
EffectChoices == IF layerIdCounter = 0 THEN EffectIds ELSE {E_PIXEL_SORT}

\* (paramId, value) pairs offered for an effect's parameters
ParamInputs(effectId) ==
  CASE effectId = E_PIXEL_SORT -> {<<"threshold", 100>>}
    [] effectId = E_COLOR_QUANTIZE -> {<<"levels", 2>>}

(***************************************************************************)
(* Actions                                                                 *)
(***************************************************************************)

Init ==
  /\ buffer = NO_BUFFER
  /\ originalBuffer = NO_BUFFER
  /\ chunks = << >>
  /\ errors = << >>
  /\ isValid = FALSE
  /\ history = << >>
  /\ historyIndex = -1
  /\ editMode = "pixel"
  /\ pixelData = NULL
  /\ imageInfo = NO_IMAGE_INFO
  /\ layers = << >>
  /\ originalPixelData = NULL
  /\ cachedResults = EmptyMap
  /\ dirtyFromIndex = -1
  /\ heap = << >>
  /\ renderStackTimeout = FALSE
  /\ layerIdCounter = 0
  /\ simplexPerm = INITIAL_NOISE_SEED

\* a file has been loaded (every parse yields at least the signature chunk)
Loaded == chunks # << >>

\* the entries pushHistory keeps: those up to the current position
Kept == SubSeq(history, 1, historyIndex + 1)

\* the number of layer entries among the kept ones
LayerEntryCount == Cardinality({i \in 1..Len(Kept) : IsLayerEntry(Kept[i])})

\* the units the kept entries take
KeptCost == LayerEntryCount + EditCost * (Len(Kept) - LayerEntryCount)

CanLayerOp == KeptCost + 1 <= MaxHistory

CanEdit == KeptCost + EditCost <= MaxHistory

Load(f) ==
  /\ f \in DOMAIN Files
  /\ Install(Collect(loadBuffer(Cur, Files[f])))

EditByte(offset, value) ==
  /\ Loaded /\ CanEdit
  /\ Install(Collect(editByte(Cur, offset, value)))

FillSelection(sel, value) ==
  /\ Loaded /\ CanEdit
  /\ Install(Collect(fillSelection(Cur, sel[1], sel[2], value)))

RandomizeSelection(sel, newData) ==
  /\ Loaded /\ CanEdit
  /\ Install(Collect(randomizeSelection(Cur, sel[1], sel[2], newData)))

Undo == Loaded /\ Install(Collect(undo(Cur)))

Redo == Loaded /\ Install(Collect(redo(Cur)))

SetEditMode(newMode) == Loaded /\ Install(Collect(setEditMode(Cur, newMode)))

AddLayer(effectId, seed) ==
  /\ Loaded /\ CanLayerOp /\ layerIdCounter < MaxLayerIds
  /\ Install(Collect(addLayer(Cur, effectId, seed)))

RemoveLayer(layerId) ==
  /\ Loaded /\ CanLayerOp
  /\ Install(Collect(removeLayer(Cur, layerId)))

UpdateLayerParam(layerId, paramId, value) ==
  /\ Loaded /\ CanLayerOp
  /\ Install(Collect(updateLayerParam(Cur, layerId, paramId, value)))

ToggleLayer(layerId) ==
  /\ Loaded /\ CanLayerOp
  /\ Install(Collect(toggleLayer(Cur, layerId)))

ReorderLayers(fromIndex, toIndex) ==
  /\ Loaded /\ CanLayerOp
  /\ Install(Collect(reorderLayers(Cur, fromIndex, toIndex)))

\* the debounce timer fires
RenderTimerFires ==
  /\ renderStackTimeout
  /\ Install(Collect(renderLayerStack([Cur EXCEPT !.renderStackTimeout = FALSE])))

LayerIds == {layers[i].id : i \in 1..Len(layers)}

Next ==
  \/ \E f \in 1..Len(Files) : Load(f)
  \/ \E o \in EditOffsets, v \in EditValues : EditByte(o, v)
  \/ \E sel \in Selections, v \in FillValues : FillSelection(sel, v)
  \/ \E sel \in Selections :
       \E d \in [1..(Max(sel[1], sel[2]) - Min(sel[1], sel[2]) + 1) -> RandomBytes] :
         RandomizeSelection(sel, d)
  \/ Undo
  \/ Redo
  \/ \E m \in {"pixel", "raw"} : SetEditMode(m)
  \/ \E e \in EffectChoices, sd \in Seeds : AddLayer(e, sd)
  \/ \E id \in LayerIds : RemoveLayer(id)
  \/ \E i \in 1..Len(layers) :
       \E pv \in ParamInputs(layers[i].effectId) :
         UpdateLayerParam(layers[i].id, pv[1], pv[2])
  \/ \E id \in LayerIds : ToggleLayer(id)
  \/ \E a \in 0..(Len(layers) - 1), b \in 0..(Len(layers) - 1) : ReorderLayers(a, b)
  \/ RenderTimerFires

Spec == Init /\ [][Next]_vars

(***************************************************************************)
(* Observations the properties below are stated in                         *)
(***************************************************************************)

\* the state after the step, as one record
CurNext ==
  [ buffer |-> buffer', originalBuffer |-> originalBuffer',
    chunks |-> chunks', errors |-> errors', isValid |-> isValid',
    history |-> history', historyIndex |-> historyIndex', editMode |-> editMode',
    pixelData |-> pixelData', imageInfo |-> imageInfo', layers |-> layers',
    originalPixelData |-> originalPixelData', cachedResults |-> cachedResults',
    dirtyFromIndex |-> dirtyFromIndex', heap |-> heap',
    renderStackTimeout |-> renderStackTimeout', layerIdCounter |-> layerIdCounter',
    simplexPerm |-> simplexPerm' ]

\* the bytes of the array ref names in the heap hp
BytesAt(hp, ref) == IF ref = NULL THEN NO_BUFFER ELSE hp[ref]

\* the bytes of the working pixel buffer (state.pixelData)
PixelBytes == BytesAt(heap, pixelData)

\* the bytes of layerStack.originalPixelData
OriginalBytes == BytesAt(heap, originalPixelData)

\* the pixel buffer as loadBuffer decodes it from file
DecodedAtLoad(file) == decompressIDAT(file, parsePNG(file).chunks).data

\* the pixel buffer as it was decoded at load: state.originalBuffer keeps the
\* copy of the file taken then
LoadPixels == DecodedAtLoad(originalBuffer)

\* the cache-free recomputation: from data, the effect of every enabled layer
\* in list order, disabled layers passing the buffer through
RECURSIVE CacheFree(_, _, _, _)
CacheFree(data, lyrs, info, i) ==
  IF i > Len(lyrs) THEN data
  ELSE CacheFree(IF lyrs[i].enabled
                 THEN EffectApply(lyrs[i].effectId, data, info, lyrs[i].params,
                                  lyrs[i].seed, INITIAL_NOISE_SEED).data
                 ELSE data,
                 lyrs, info, i + 1)

\* this step ran renderLayerStack to its end: the debounce timer fired, or a
\* layer entry was undone, or a layer entry was redone or recorded by an
\* operation that renders at once (updateLayerParam leaves dirtyFromIndex set)
RenderCompleted ==
  /\ originalPixelData' # NULL
  /\ \/ renderStackTimeout /\ ~renderStackTimeout'
     \/ /\ history' = history
        /\ historyIndex' = historyIndex - 1
        /\ IsLayerEntry(history[historyIndex + 1])
     \/ /\ historyIndex' = historyIndex + 1
        /\ Len(history') > historyIndex'
        /\ IsLayerEntry(history'[historyIndex' + 1])
        /\ dirtyFromIndex' = -1

\* this step recorded a history entry (only pushHistory adds entries)
Recorded == history' # history /\ history' # << >>

\* n times undo(), n times redo()
RECURSIVE UndoN(_, _)
UndoN(st, n) == IF n = 0 THEN st ELSE UndoN(undo(st), n - 1)

RECURSIVE RedoN(_, _)
RedoN(st, n) == IF n = 0 THEN st ELSE RedoN(redo(st), n - 1)

(***************************************************************************)
(* C1: whenever renderLayerStack has just completed, the working pixel     *)
(* buffer equals the cache-free recomputation from the pixel buffer as it  *)
(* was decoded at load, through the enabled layers in list order with      *)
(* their current params and seeds.                                         *)
(***************************************************************************)
C1_RenderEqualsRecomputeFromLoad ==
  [][RenderCompleted =>
       BytesAt(heap', pixelData')
         = CacheFree(DecodedAtLoad(originalBuffer'), layers', imageInfo', 1)]_vars

(***************************************************************************)
(* C2: right after an edit En has been recorded, with E1..En the entries   *)
(* of the history, n undos followed by n redos leave the file buffer with  *)
(* exactly the bytes it has now.                                           *)
(***************************************************************************)
C2_UndoRedoRoundTrip ==
  [][Recorded =>
       RedoN(UndoN(CurNext, Len(history')), Len(history')).buffer = buffer']_vars

(***************************************************************************)
(* C3: between loads the bytes of originalPixelData are the pixel bytes    *)
(* loadBuffer decoded, whatever operations have run since.                 *)
(***************************************************************************)
C3_OriginalNeverMutated ==
  originalPixelData # NULL => OriginalBytes = LoadPixels

(***************************************************************************)
(* The quiet period after a burst of parameter updates: while the debounce *)
(* timer is armed nothing but further parameter updates happens, and the   *)
(* armed timer fires (setTimeout callbacks run once their delay is over).  *)
(***************************************************************************)

\* no debounce timer is armed
Quiet == ~renderStackTimeout

\* (paramId, value) pairs of the bursts: two values for one parameter, so
\* that a later update can overwrite an earlier one
BurstInputs(effectId) ==
  CASE effectId = E_PIXEL_SORT -> {<<"threshold", 100>>}
    [] effectId = E_COLOR_QUANTIZE -> {<<"levels", 2>>, <<"levels", 4>>}

DebounceNext ==
  \/ Quiet /\ \E f \in 1..Len(Files) : Load(f)
  \/ Quiet /\ \E o \in EditOffsets, v \in EditValues : EditByte(o, v)
  \/ Quiet /\ Undo
  \/ Quiet /\ Redo
  \/ Quiet /\ \E e \in EffectChoices, sd \in Seeds : AddLayer(e, sd)
  \/ Quiet /\ \E id \in LayerIds : ToggleLayer(id)
  \/ \E i \in 1..Len(layers) :
       \E pv \in BurstInputs(layers[i].effectId) :
         UpdateLayerParam(layers[i].id, pv[1], pv[2])
  \/ RenderTimerFires

\* this step is the debounce timer firing: RenderTimerFires is the one step
\* that disarms the timer, and it can be taken whenever the timer is armed
TimerFired == renderStackTimeout /\ renderStackTimeout' = FALSE

\* an armed timer does fire
SpecDebounce ==
  Init /\ [][DebounceNext]_vars /\ WF_renderStackTimeout(TimerFired)

(***************************************************************************)
(* C4: after a burst of updateLayerParam calls with nothing else going on, *)
(* the scheduled recompute eventually runs, and when it has run the        *)
(* working pixel buffer is the recomputation of the stack with the params  *)
(* as they were last set.                                                  *)
(***************************************************************************)
C4_DebouncedRenderReflectsLastParams ==
  /\ [][TimerFired =>
          BytesAt(heap', pixelData')
            = CacheFree(BytesAt(heap', originalPixelData'), layers', imageInfo', 1)]_vars
  /\ (renderStackTimeout ~> ~renderStackTimeout)

\* the timer has fired after two parameter updates, and the output is not
\* the one the params before the last update give
C4_Witness ==
  /\ ~renderStackTimeout
  /\ Len(history) >= 2
  /\ historyIndex = Len(history) - 1
  /\ history[Len(history)].type = "layer-param"
  /\ history[Len(history) - 1].type = "layer-param"
  /\ PixelBytes = CacheFree(OriginalBytes, layers, imageInfo, 1)
  /\ PixelBytes # CacheFree(OriginalBytes, history[Len(history)].oldLayers, imageInfo, 1)

\* the working pixel bytes of the state st
PixelsOf(st) == BytesAt(st.heap, st.pixelData)

(***************************************************************************)
(* C5: in every state, for every enabled layer, toggling it off and on     *)
(* again leaves the working pixel buffer equal to the recomputation of the *)
(* stack with the layer enabled.                                           *)
(***************************************************************************)
C5_ToggleOffOnKeepsOutput ==
  originalPixelData # NULL =>
    \A i \in 1..Len(layers) :
      layers[i].enabled =>
        PixelsOf(toggleLayer(toggleLayer(Cur, layers[i].id), layers[i].id))
          = CacheFree(OriginalBytes, layers, imageInfo, 1)

\* a layer has been toggled off and on again, and its being off made a
\* difference to the output
C5_Witness ==
  /\ Len(history) >= 2
  /\ historyIndex = Len(history) - 1
  /\ history[Len(history)].type = "layer-toggle"
  /\ history[Len(history) - 1].type = "layer-toggle"
  /\ history[Len(history)].newLayers = history[Len(history) - 1].oldLayers
  /\ \E i \in 1..Len(layers) :
       layers[i].enabled /\ ~history[Len(history)].oldLayers[i].enabled
  /\ PixelBytes = CacheFree(OriginalBytes, layers, imageInfo, 1)
  /\ PixelBytes # CacheFree(OriginalBytes, history[Len(history)].oldLayers, imageInfo, 1)

(***************************************************************************)
(* C6: a step that records an entry keeps the entries up to the position   *)
(* it started from (less the oldest one when the list is full), puts the   *)
(* new entry last with the position on it, and leaves nothing to redo.     *)
(***************************************************************************)
C6_PushDiscardsRedoBranch ==
  [][Recorded =>
       /\ historyIndex' = Len(history') - 1
       /\ \/ SubSeq(history', 1, Len(history') - 1) = Kept
          \/ /\ Len(Kept) = HISTORY_LIMIT
             /\ SubSeq(history', 1, Len(history') - 1) = Tail(Kept)
       /\ redo(CurNext) = CurNext]_vars

\* a byte edit was recorded after the layer entry of this file was undone:
\* the layer entry is gone
C6_Witness ==
  /\ layerIdCounter = 1
  /\ Len(history) = 1
  /\ historyIndex = 0
  /\ ~IsLayerEntry(history[1])

(***************************************************************************)
(* The history at its limit: byte edits without a budget, on the file that *)
(* opens in raw mode.                                                      *)
(***************************************************************************)

\* the first data byte of the IDAT chunk of FILE_BROKEN
HistoryEditOffsets == {41}

\* the values written in turn
HistoryEditValues == {7, 8}

EditByteAtWill(offset, value) ==
  /\ Loaded
  /\ Install(Collect(editByte(Cur, offset, value)))

HistoryNext ==
  \/ \E f \in {i \in 1..Len(Files) : Files[i] = FILE_BROKEN} : Load(f)
  \/ \E o \in HistoryEditOffsets, v \in HistoryEditValues : EditByteAtWill(o, v)
  \/ Undo
  \/ Redo

SpecHistory == Init /\ [][HistoryNext]_vars

(***************************************************************************)
(* C7: the history never holds more than 100 entries and the position      *)
(* stays within -1 .. length - 1; a push onto 100 kept entries drops the   *)
(* oldest and leaves the position on the pushed entry, the last one.       *)
(***************************************************************************)
C7_HistoryBounded ==
  /\ [](/\ Len(history) <= HISTORY_LIMIT
        /\ -1 <= historyIndex
        /\ historyIndex <= Len(history) - 1)
  /\ [][Recorded /\ Len(Kept) = HISTORY_LIMIT =>
          /\ Len(history') = HISTORY_LIMIT
          /\ SubSeq(history', 1, HISTORY_LIMIT - 1) = Tail(Kept)
          /\ historyIndex' = HISTORY_LIMIT - 1]_vars

\* the history is full and its oldest entry is not the first edit of the
\* file (which replaced the byte the file came with)
C7_Witness ==
  /\ Len(history) = HISTORY_LIMIT
  /\ historyIndex = HISTORY_LIMIT - 1
  /\ history[1].oldData \in {<<v>> : v \in HistoryEditValues}

(***************************************************************************)
(* C8: undo of a byte entry leaves the entry's old bytes at its offset in  *)
(* the buffer of the entry's mode (file buffer for raw, pixel buffer for   *)
(* pixel) and the position one lower; redo leaves the new bytes there and  *)
(* the position one higher; a raw entry leaves the pixel buffer alone.     *)
(* This in every state, whatever its edit mode.                            *)
(***************************************************************************)

\* the buffer of st an entry of the given mode is replayed onto
TargetBytes(st, mode) == IF mode = "pixel" THEN PixelsOf(st) ELSE st.buffer

\* after is the state the replay of entry left, data the bytes it replayed
Replayed(entry, data, after, position) ==
  /\ after.historyIndex = position
  /\ Slice(TargetBytes(after, entry.mode), entry.offset, entry.offset + Len(data)) = data
  /\ entry.mode = "raw" => PixelsOf(after) = PixelBytes

C8_UndoRedoTargetEntryMode ==
  /\ (historyIndex >= 0 /\ ~IsLayerEntry(history[historyIndex + 1])) =>
       Replayed(history[historyIndex + 1], history[historyIndex + 1].oldData,
                undo(Cur), historyIndex - 1)
  /\ (historyIndex < Len(history) - 1 /\ ~IsLayerEntry(history[historyIndex + 2])) =>
       Replayed(history[historyIndex + 2], history[historyIndex + 2].newData,
                redo(Cur), historyIndex + 1)

\* a byte entry has been undone (its old bytes are in place) and the edit
\* mode is no longer the entry's: the redo to come crosses modes
C8_Witness ==
  /\ historyIndex < Len(history) - 1
  /\ ~IsLayerEntry(history[historyIndex + 2])
  /\ history[historyIndex + 2].mode # editMode
  /\ Slice(TargetBytes(Cur, history[historyIndex + 2].mode),
           history[historyIndex + 2].offset,
           history[historyIndex + 2].offset + Len(history[historyIndex + 2].oldData))
       = history[historyIndex + 2].oldData

(***************************************************************************)
(* C9: whenever recompressAndRebuildBuffer can run (pixels, image info and *)
(* an IDAT chunk are there), the buffer it builds parses to exactly one    *)
(* IDAT chunk with a valid CRC, and to the same non-IDAT chunks, byte for  *)
(* byte and in the same order, as the buffer it started from.              *)
(***************************************************************************)

\* the bytes of the chunks other than IDAT, in list order
RECURSIVE NonIdatBytes(_, _, _)
NonIdatBytes(buf, cs, i) ==
  IF i > Len(cs) THEN << >>
  ELSE IF cs[i].type = T_IDAT THEN NonIdatBytes(buf, cs, i + 1)
  ELSE <<Slice(buf, cs[i].offset, cs[i].offset + cs[i].length)>>
       \o NonIdatBytes(buf, cs, i + 1)

RebuildKeeps(old, new) ==
  /\ Len(ChunksOfType(new.chunks, T_IDAT)) = 1
  /\ ChunksOfType(new.chunks, T_IDAT)[1].crcValid
  /\ NonIdatBytes(new.buffer, new.chunks, 1) = NonIdatBytes(old.buffer, old.chunks, 1)

C9_RebuildKeepsOtherChunks ==
  (/\ pixelData # NULL
   /\ imageInfo # NO_IMAGE_INFO
   /\ ChunksOfType(chunks, T_IDAT) # << >>) =>
    RebuildKeeps(Cur, recompressAndRebuildBuffer(Cur))

(***************************************************************************)
(* C10: after a step that is a raw-mode edit (a raw byte entry recorded,   *)
(* undone or redone) every chunk of the chunk list but the signature has a *)
(* valid CRC.                                                              *)
(***************************************************************************)

IsRawByteEntry(entry) == ~IsLayerEntry(entry) /\ entry.mode = "raw"

RawEditStep ==
  \/ /\ Recorded
     /\ historyIndex' = Len(history') - 1
     /\ IsRawByteEntry(history'[Len(history')])
  \/ /\ history' = history
     /\ historyIndex' = historyIndex - 1
     /\ IsRawByteEntry(history[historyIndex + 1])
  \/ /\ history' = history
     /\ historyIndex' = historyIndex + 1
     /\ IsRawByteEntry(history[historyIndex' + 1])

AllCrcValid(cs) == \A i \in 1..Len(cs) : cs[i].isSignature \/ cs[i].crcValid

C10_RawEditLeavesCrcsValid ==
  [][RawEditStep => AllCrcValid(chunks')]_vars


(***************************************************************************)
(* Export                                                                  *)
(***************************************************************************)

\* a faulty export: the CRCs are rewritten in the buffer itself
saveFileInPlace(st, fixCrc) ==
  IF st.chunks = << >> THEN [state |-> st, emitted |-> Nothing]
  ELSE IF fixCrc
  THEN [state |-> [st EXCEPT !.buffer = RecalculateAll(st.buffer, st.chunks, 1)],
        emitted |-> Bytes(RecalculateAll(st.buffer, st.chunks, 1))]
  ELSE [state |-> st, emitted |-> Bytes(st.buffer)]

\* saveFile(fixCrc): the bytes handed to the download, and the state the
\* call leaves; with fixCrc the CRCs are rewritten in a copy of the buffer
saveFile(st, fixCrc) ==
  IF st.chunks = << >> THEN [state |-> st, emitted |-> Nothing]
  ELSE [state |-> st,
        emitted |-> Bytes(IF fixCrc THEN RecalculateAll(st.buffer, st.chunks, 1)
                          ELSE st.buffer)]

(***************************************************************************)
(* Files as they are dropped: complete, cut off, and with a byte changed    *)
(***************************************************************************)

\* an RGB file with one IDAT chunk: IHDR, IDAT, IEND
FILE_ONE ==
  PNG_SIGNATURE \o MakeChunk(T_IHDR, IHDRData(2, 1, 8, 2))
  \o MakeChunk(T_IDAT, Deflate(PIXELS_RGB))
  \o MakeChunk(T_IEND, << >>)

\* the chunks of FILE_ONE with IHDR and IDAT swapped
FILE_SWAPPED ==
  PNG_SIGNATURE \o MakeChunk(T_IDAT, Deflate(PIXELS_RGB))
  \o MakeChunk(T_IHDR, IHDRData(2, 1, 8, 2))
  \o MakeChunk(T_IEND, << >>)

\* FILE_ONE followed by bytes behind its IEND chunk
FILE_TRAILING == FILE_ONE \o <<0, 0, 0, 0, 73, 69>>

\* the first n bytes of a file
Truncated(file, n) == SubSeq(file, 1, n)

\* the file with the byte at offset k replaced by another value
ByteChanged(file, k) ==
  [i \in 1..Len(file) |-> IF i = k + 1 THEN (file[i] + 6) % 256 ELSE file[i]]

\* the offsets of the data field of a chunk
DataRange(c) == c.dataOffset .. (c.crcOffset - 1)

\* the offsets of a file's bytes that lie in the data field of chunk i
DataOffsets(file, i) == DataRange(parsePNG(file).chunks[i])

\* the indices of the real chunks of a file
RealChunks(file) == 2..Len(parsePNG(file).chunks)

\* the files with one data byte of one chunk changed
DataChanges(file) ==
  {ByteChanged(file, k) : k \in UNION {DataOffsets(file, i) : i \in RealChunks(file)}}

ParseInputs ==
  {Truncated(FILE_ONE, n) : n \in 0..Len(FILE_ONE)}
  \cup DataChanges(FILE_ONE) \cup DataChanges(FILE_SPLIT)
  \cup {FILE_SPLIT, FILE_BROKEN, FILE_SWAPPED, FILE_TRAILING}

\* a file dropped on the fresh page
LoadInput(file) ==
  /\ ~Loaded
  /\ Install(Collect(loadBuffer(Cur, file)))

SaveFile(fixCrc) ==
  /\ Loaded
  /\ Install(Collect(saveFile(Cur, fixCrc).state))

ParseNext ==
  \/ \E file \in ParseInputs : LoadInput(file)
  \/ \E fixCrc \in BOOLEAN : SaveFile(fixCrc)

SpecParse == Init /\ [][ParseNext]_vars

\* the layout of a chunk list over a buffer of n bytes
ChunkLayout(cs, n) ==
  /\ Len(cs) >= 1
  /\ cs[1].isSignature /\ cs[1].offset = 0 /\ cs[1].length = 8
  /\ \A i \in 2..Len(cs) :
       /\ ~cs[i].isSignature
       /\ cs[i].offset > cs[i - 1].offset
       /\ cs[i].offset = cs[i - 1].offset + cs[i - 1].length
       /\ cs[i].dataOffset = cs[i].offset + 8
       /\ cs[i].crcOffset = cs[i].offset + 8 + cs[i].dataLength
       /\ cs[i].length = 12 + cs[i].dataLength
       /\ cs[i].offset + cs[i].length <= n

\* C11: for every file loaded, the chunk list parsePNG returned starts with
\* the 8-byte signature pseudo-chunk at offset 0; offsets are strictly
\* increasing, every real chunk starts where the previous chunk ends, has
\* dataOffset = offset + 8, crcOffset = offset + 8 + dataLength and
\* length = 12 + dataLength, and ends inside the buffer.
C11_ChunkListLayout ==
  Loaded => /\ chunks = parsePNG(buffer).chunks
            /\ ChunkLayout(chunks, Len(buffer))

\* a cut-off file was loaded whose parse kept two real chunks
C11_Witness ==
  Loaded /\ Len(chunks) = 3 /\ ~isValid /\ Len(buffer) < Len(FILE_ONE)


\* the valid files whose changes and cuts are loaded
ValidFiles == {FILE_ONE, FILE_SPLIT}

\* two chunk lists with the same offsets, types and lengths
SameLayout(cs, ds) ==
  /\ Len(cs) = Len(ds)
  /\ \A j \in 1..Len(cs) :
       /\ cs[j].offset = ds[j].offset
       /\ cs[j].type = ds[j].type
       /\ cs[j].length = ds[j].length
       /\ cs[j].dataLength = ds[j].dataLength

\* the parse of a file whose only flaw is the CRC of chunk i of the list was
CrcErrorOnlyAt(was, i) ==
  /\ SameLayout(chunks, was)
  /\ \A j \in 2..Len(chunks) : chunks[j].crcValid <=> (j # i)
  /\ chunks[1].crcValid
  /\ errors = <<ParseError("crc", was[i].type, was[i].offset)>>
  /\ ~isValid

\* the loaded buffer is base with one data byte of one chunk changed: the
\* parse is that of base but for the CRC of the chunk
CrcMismatchIsolated(base, parsed) ==
  parsed.isValid =>
    \A i \in 2..Len(parsed.chunks) :
      \A k \in DataRange(parsed.chunks[i]) :
        buffer = ByteChanged(base, k) => CrcErrorOnlyAt(parsed.chunks, i)

\* C12: when the file loaded is a valid PNG with one data byte of one chunk
\* changed, parsePNG returns the chunks of the valid file (same offsets,
\* types and lengths), one CRC error, for that chunk, crcValid = false for
\* that chunk only, and isValid = false.
C12_CrcMismatchNonFatal ==
  Loaded => \A base \in ValidFiles : CrcMismatchIsolated(base, parsePNG(base))

\* the file loaded is FILE_SPLIT with a byte of its first IDAT chunk's data
\* changed, and chunks behind that chunk were parsed
C12_Witness ==
  /\ Loaded
  /\ \E k \in DataOffsets(FILE_SPLIT, 3) : buffer = ByteChanged(FILE_SPLIT, k)
  /\ Len(chunks) = 6
  /\ ~chunks[3].crcValid


\* the number of truncation errors in an error list
TruncationErrors(errs) ==
  Cardinality({j \in 1..Len(errs) : errs[j].kind = "truncated"})

\* the loaded buffer is base cut off inside one of its chunks: the chunk
\* list is the part of base's list before that chunk, and one truncation
\* error is recorded
CutStopsAtChunk(base, parsed) ==
  \A i \in 2..Len(parsed.chunks) :
    \A n \in (parsed.chunks[i].offset + 1) ..
             (parsed.chunks[i].offset + parsed.chunks[i].length - 1) :
      buffer = Truncated(base, n) =>
        /\ SameLayout(chunks, SubSeq(parsed.chunks, 1, i - 1))
        /\ TruncationErrors(errors) = 1

\* C13: when the file loaded is a valid PNG cut off inside a chunk (inside
\* its length, type, data or CRC field), parsePNG returns the chunks that
\* were complete before the cut and records exactly one truncation error.
C13_CutRecordsOneTruncation ==
  Loaded => CutStopsAtChunk(FILE_ONE, parsePNG(FILE_ONE))


\* the number of errors of a kind in an error list
ErrorCount(errs, kind) ==
  Cardinality({j \in 1..Len(errs) : errs[j].kind = kind})

\* C14: for every file loaded, isValid is true exactly when the error list
\* is empty; 'First chunk must be IHDR' is recorded exactly when there is a
\* chunk at index 1 and it is not IHDR, and then the walk still goes on (the
\* file with IHDR and IDAT swapped parses through IEND with that one error);
\* 'Last chunk must be IEND' is recorded exactly when the last chunk
\* returned is not IEND.
C14_ValidityAndStructureChecks ==
  Loaded =>
    /\ isValid <=> (errors = << >>)
    /\ ErrorCount(errors, "first-not-IHDR") =
         (IF Len(chunks) > 1 /\ chunks[2].type # T_IHDR THEN 1 ELSE 0)
    /\ ErrorCount(errors, "last-not-IEND") =
         (IF chunks[Len(chunks)].type # T_IEND THEN 1 ELSE 0)
    /\ buffer = FILE_SWAPPED =>
         /\ Len(chunks) = 4
         /\ chunks[2].type = T_IDAT /\ chunks[3].type = T_IHDR
         /\ chunks[4].type = T_IEND
         /\ chunks[4].offset + chunks[4].length = Len(buffer)
         /\ errors = <<ParseError("first-not-IHDR", << >>, 0)>>

\* the file with IHDR and IDAT swapped was loaded and parsed through IEND
C14_Witness ==
  /\ Loaded
  /\ buffer = FILE_SWAPPED
  /\ ErrorCount(errors, "first-not-IHDR") = 1
  /\ chunks[Len(chunks)].type = T_IEND


\* C15: after a load, a pixel buffer is installed only if the length of the
\* inflated IDAT data is exactly scanlineLength * height of the ImageInfo
\* read from IHDR; with any other length no pixel buffer is installed.
C15_PixelBufferOnlyOnExactLength ==
  (Loaded /\ pixelData # NULL /\ imageInfo # NO_IMAGE_INFO) =>
    Len(PixelBytes) = imageInfo.scanlineLength * imageInfo.height


(***************************************************************************)
(* Sessions on files whose IDAT data does not inflate, or is missing       *)
(***************************************************************************)

\* a file without IDAT chunk: IHDR, IEND
FILE_NO_IDAT ==
  PNG_SIGNATURE \o MakeChunk(T_IHDR, IHDRData(2, 1, 8, 2)) \o MakeChunk(T_IEND, << >>)

\* FILE_ONE with the first pixel byte of its zlib stream changed (the
\* Adler-32 check of the stream fails)
FILE_BAD_STREAM == ByteChanged(FILE_ONE, 49)

RawOnlyFiles == {FILE_BROKEN, FILE_NO_IDAT, FILE_BAD_STREAM}

RawEditValues == {7, 8}

LoadRawOnly(file) ==
  /\ file \in RawOnlyFiles
  /\ Install(Collect(loadBuffer(Cur, file)))

RawOnlyNext ==
  \/ \E file \in RawOnlyFiles : LoadRawOnly(file)
  \/ \E o \in EditOffsets, v \in RawEditValues : EditByte(o, v)
  \/ \E sel \in Selections, v \in FillValues : FillSelection(sel, v)
  \/ Undo
  \/ Redo
  \/ \E m \in {"pixel", "raw"} : SetEditMode(m)
  \/ \E e \in EffectIds, sd \in Seeds : AddLayer(e, sd)

SpecRawOnly == Init /\ [][RawOnlyNext]_vars

\* a session without pixel buffer: raw mode, no layers, and neither the
\* mode toggle nor addLayer changes anything
RawOnlySession ==
  /\ pixelData = NULL /\ originalPixelData = NULL
  /\ editMode = "raw"
  /\ layers = << >>
  /\ \A i \in 1..Len(history) : IsRawByteEntry(history[i])
  /\ setEditMode(Cur, "pixel") = Cur
  /\ \A e \in EffectIds, sd \in Seeds : addLayer(Cur, e, sd) = Cur

\* the step recorded a byte edit of the file buffer: the entry holds the
\* bytes the buffer had and has at its offset, at the new history position
RawEditRecorded ==
  /\ historyIndex' = Len(history') - 1
  /\ IsRawByteEntry(history'[Len(history')])
  /\ history'[Len(history')].oldData # history'[Len(history')].newData
  /\ Slice(buffer, history'[Len(history')].offset,
           history'[Len(history')].offset + Len(history'[Len(history')].oldData))
       = history'[Len(history')].oldData
  /\ Slice(buffer', history'[Len(history')].offset,
           history'[Len(history')].offset + Len(history'[Len(history')].newData))
       = history'[Len(history')].newData

\* C16: in a session on a file whose IDAT data does not inflate or that has
\* no IDAT chunk there is no pixel buffer, the mode is raw and asking for
\* pixel mode leaves it raw, addLayer changes neither the layer list nor the
\* history, and every byte edit that changes a byte is written to the file
\* buffer and recorded for undo.
C16_FailedInflateIsRawOnly ==
  /\ [](Loaded => RawOnlySession)
  /\ [][Recorded => RawEditRecorded]_vars
  /\ [][\A o \in EditOffsets, v \in RawEditValues :
          (EditByte(o, v) /\ buffer[o + 1] # v) =>
            /\ buffer'[o + 1] = v
            /\ historyIndex' = Len(history') - 1
            /\ history'[Len(history')] =
                 ByteEntry("edit", o, "raw", <<buffer[o + 1]>>, <<v>>)
            /\ undo(CurNext).buffer[o + 1] = buffer[o + 1]]_vars

\* a byte of the file without IDAT chunk was edited and the edit recorded
C16_Witness ==
  /\ Loaded /\ pixelData = NULL
  /\ ChunksOfType(chunks, T_IDAT) = << >>
  /\ historyIndex = 0
  /\ IsRawByteEntry(history[1])
  /\ buffer[history[1].offset + 1] = history[1].newData[1]
  /\ buffer # originalBuffer


(***************************************************************************)
(* Pixel edits whose rebuild of the file buffer throws                     *)
(***************************************************************************)

LoadValid(file) ==
  /\ file \in ValidFiles
  /\ Install(Collect(loadBuffer(Cur, file)))

\* editByte(offset, value) in which recompressAndRebuildBuffer throws
EditByteRebuildThrows(offset, value) ==
  /\ Loaded /\ CanEdit
  /\ Install(Collect(editByteWith(Cur, offset, value, TRUE)))

RebuildNext ==
  \/ \E file \in ValidFiles : LoadValid(file)
  \/ \E o \in EditOffsets, v \in RawEditValues : EditByte(o, v)
  \/ \E o \in EditOffsets, v \in RawEditValues : EditByteRebuildThrows(o, v)
  \/ Undo
  \/ Redo
  \/ \E m \in {"pixel", "raw"} : SetEditMode(m)

SpecRebuild == Init /\ [][RebuildNext]_vars

\* the file buffer and its parse are those of st
SameFile(st, tt) ==
  /\ tt.buffer = st.buffer /\ tt.chunks = st.chunks
  /\ tt.errors = st.errors /\ tt.isValid = st.isValid

\* C17: when an exception is thrown inside recompressAndRebuildBuffer
\* (pako.deflate or the building of the new buffer fails), the file buffer,
\* the chunk list, the error list and the validity flag are what they were
\* before the call: both for the call made in any loaded state and over
\* every pixel-mode editByte step whose rebuild throws.
C17_FailedRebuildKeepsFile ==
  /\ [](Loaded => SameFile(Cur, recompressThrowing(Cur)))
  /\ [][\A o \in EditOffsets, v \in RawEditValues :
          (EditByteRebuildThrows(o, v) /\ editMode = "pixel" /\ pixelData # NULL)
            => /\ buffer' = buffer /\ chunks' = chunks
               /\ errors' = errors /\ isValid' = isValid]_vars

\* a pixel edit was recorded and written to the pixel buffer while the file
\* buffer still holds the stream of the pixels as loaded
C17_Witness ==
  /\ Loaded /\ pixelData # NULL /\ editMode = "pixel"
  /\ historyIndex = 0
  /\ history[1].mode = "pixel"
  /\ PixelBytes[history[1].offset + 1] = history[1].newData[1]
  /\ decompressIDAT(buffer, chunks) = Bytes(OriginalBytes)
  /\ PixelBytes # OriginalBytes
  /\ buffer = originalBuffer


\* every non-signature chunk of the list has, in the bytes, a stored CRC
\* equal to the CRC-32 of its type and data bytes
StoredCrcsMatch(bytes, cs) ==
  \A i \in 1..Len(cs) :
    cs[i].isSignature \/
      ReadWord(bytes, cs[i].crcOffset) =
        crc32(bytes, cs[i].offset + 4, 4 + cs[i].dataLength)

\* the offsets of the CRC fields of the non-signature chunks of a list
CrcFieldOffsets(cs) ==
  UNION {cs[i].crcOffset .. (cs[i].crcOffset + 3) :
           i \in {j \in 1..Len(cs) : ~cs[j].isSignature}}

\* C18: for every loaded file, saveFile(true) emits bytes of the buffer's
\* length in which the stored CRC of every non-signature chunk is the CRC-32
\* of the chunk's type and data, equal to the buffer outside the CRC fields,
\* and leaves the state (the in-memory buffer) unchanged; saveFile(false)
\* emits the in-memory buffer byte for byte and leaves the state unchanged.
C18_ExportFixedAndRaw ==
  Loaded =>
    /\ saveFile(Cur, TRUE).emitted.ok
    /\ Len(saveFile(Cur, TRUE).emitted.data) = Len(buffer)
    /\ StoredCrcsMatch(saveFile(Cur, TRUE).emitted.data, chunks)
    /\ \A k \in (0..(Len(buffer) - 1)) \ CrcFieldOffsets(chunks) :
         saveFile(Cur, TRUE).emitted.data[k + 1] = buffer[k + 1]
    /\ saveFile(Cur, TRUE).state = Cur
    /\ saveFile(Cur, FALSE).emitted = Bytes(buffer)
    /\ saveFile(Cur, FALSE).state = Cur

\* a file is loaded in which the stored CRC of a chunk is wrong: the fixed
\* export differs from the buffer, the raw export keeps the wrong CRC
C18_Witness ==
  /\ Loaded
  /\ ~StoredCrcsMatch(buffer, chunks)
  /\ saveFile(Cur, TRUE).emitted.data # buffer
  /\ ~StoredCrcsMatch(saveFile(Cur, FALSE).emitted.data, chunks)


\* a layer of the effect, enabled, with exactly the declared parameters,
\* each at its declared default
IsDefaultLayer(layer, effectId) ==
  /\ layer.effectId = effectId
  /\ layer.enabled
  /\ DOMAIN layer.params = ParameterIds(Parameters(effectId))
  /\ \A i \in 1..Len(Parameters(effectId)) :
       layer.params[Parameters(effectId)[i].id] = Parameters(effectId)[i].default

\* tt is st with one layer of the effect appended and one layer-snapshot
\* entry pushed behind the current history position
AddedOneLayer(st, tt, effectId) ==
  /\ Len(tt.layers) = Len(st.layers) + 1
  /\ SubSeq(tt.layers, 1, Len(st.layers)) = st.layers
  /\ IsDefaultLayer(tt.layers[Len(tt.layers)], effectId)
  /\ \A i \in 1..Len(st.layers) : tt.layers[Len(tt.layers)].id # st.layers[i].id
  /\ Len(tt.history) = st.historyIndex + 2
  /\ tt.historyIndex = st.historyIndex + 1
  /\ SubSeq(tt.history, 1, st.historyIndex + 1) = SubSeq(st.history, 1, st.historyIndex + 1)
  /\ tt.history[Len(tt.history)] = LayerEntry("layer-add", st.layers, tt.layers)

\* C19: in every state with a pixel buffer loaded, addLayer(effectId)
\* appends exactly one layer at the end of the list: enabled, of the effect,
\* with exactly the parameters the effect declares, each at its default;
\* the layers already there are unchanged, and exactly one layer-snapshot
\* entry (the list before, the list after) is pushed.
C19_AddLayerAppendsDefaultLayer ==
  (Loaded /\ originalPixelData # NULL) =>
    \A e \in EffectIds, sd \in Seeds : AddedOneLayer(Cur, addLayer(Cur, e, sd), e)

\* a second layer was added behind a layer whose parameter is no longer at
\* its default, and the addition is the current history entry
C19_Witness ==
  /\ Loaded /\ Len(layers) = 2
  /\ historyIndex >= 0
  /\ history[historyIndex + 1].type = "layer-add"
  /\ history[historyIndex + 1].newLayers = layers
  /\ layers[1].params # getDefaultParams(layers[1].effectId)
  /\ IsDefaultLayer(layers[2], layers[2].effectId)


(***************************************************************************)
(* Layer stacks with effects that seed the shared noise generator          *)
(***************************************************************************)

NoiseEffectIds == {E_NEIGHBOR_DRIFT, E_COLOR_QUANTIZE}

\* (paramId, value) pairs offered for the parameters of these effects
NoiseParamInputs(effectId) ==
  CASE effectId = E_NEIGHBOR_DRIFT -> {<<"blend", 100>>}
    [] effectId = E_COLOR_QUANTIZE -> {<<"levels", 2>>}

LoadOne ==
  /\ ~Loaded
  /\ Install(Collect(loadBuffer(Cur, FILE_ONE)))

EffectsNext ==
  \/ LoadOne
  \/ \E e \in NoiseEffectIds, sd \in NoiseSeeds : AddLayer(e, sd)
  \/ \E id \in LayerIds : RemoveLayer(id)
  \/ \E i \in 1..Len(layers) :
       \E pv \in NoiseParamInputs(layers[i].effectId) :
         UpdateLayerParam(layers[i].id, pv[1], pv[2])
  \/ \E id \in LayerIds : ToggleLayer(id)
  \/ \E a \in 0..(Len(layers) - 1), b \in 0..(Len(layers) - 1) : ReorderLayers(a, b)
  \/ Undo
  \/ Redo
  \/ RenderTimerFires

SpecEffects == Init /\ [][EffectsNext]_vars

\* the effect of a layer gives, for the pixel bytes data, the same result
\* whatever table the noise generator holds when it is called
SameForEveryTable(layer, data) ==
  \A perm \in PermTables \cup {simplexPerm} :
    /\ EffectApply(layer.effectId, data, imageInfo, layer.params, layer.seed, perm).data
         = EffectApply(layer.effectId, data, imageInfo, layer.params, layer.seed,
                       INITIAL_NOISE_SEED).data
    /\ EffectApply(layer.effectId, data, imageInfo, layer.params, layer.seed, perm).same
         = EffectApply(layer.effectId, data, imageInfo, layer.params, layer.seed,
                       INITIAL_NOISE_SEED).same

\* C20: an effect's output is determined by (pixel buffer, imageInfo,
\* params, seed): for every layer of every reachable stack, applied to the
\* pixels as loaded and to the working pixels, the output is the same for
\* every table the shared noise generator can hold when the effect is
\* called, the table left by the effects applied before included.
C20_EffectsDeterministic ==
  (Loaded /\ pixelData # NULL) =>
    \A i \in 1..Len(layers) :
      /\ SameForEveryTable(layers[i], OriginalBytes)
      /\ SameForEveryTable(layers[i], PixelBytes)

\* the first layer is a neighbor-drift layer whose output depends on the
\* noise it reads, and the generator holds the table of another layer's
\* seed, with which the noise read would give other bytes
C20_Witness ==
  /\ Loaded /\ Len(layers) = 2
  /\ layers[1].effectId = E_NEIGHBOR_DRIFT
  /\ layers[2].effectId = E_NEIGHBOR_DRIFT
  /\ simplexPerm = layers[2].seed
  /\ simplexPerm # layers[1].seed
  /\ DriftRows(OriginalBytes, imageInfo, layers[1].params, simplexPerm)
       # DriftRows(OriginalBytes, imageInfo, layers[1].params, layers[1].seed)


(***************************************************************************)
(* Effects and their input buffer                                          *)
(***************************************************************************)

\* 2x1 grayscale, 8 bit: one scanline of filter byte + 2 pixels
PIXELS_GRAY == <<0, 200, 100>>

\* a grayscale file (bytesPerPixel = 1): IHDR, IDAT, IEND
FILE_GRAY ==
  PNG_SIGNATURE \o MakeChunk(T_IHDR, IHDRData(2, 1, 8, 0))
  \o MakeChunk(T_IDAT, Deflate(PIXELS_GRAY))
  \o MakeChunk(T_IEND, << >>)

ApplyFiles == {FILE_ONE, FILE_GRAY}

LoadApplyInput(file) ==
  /\ ~Loaded /\ file \in ApplyFiles
  /\ Install(Collect(loadBuffer(Cur, file)))

ApplyNext ==
  \/ \E file \in ApplyFiles : LoadApplyInput(file)
  \/ \E e \in EffectIds, sd \in Seeds : AddLayer(e, sd)
  \/ \E id \in LayerIds : RemoveLayer(id)
  \/ \E i \in 1..Len(layers) :
       \E pv \in ParamInputs(layers[i].effectId) :
         UpdateLayerParam(layers[i].id, pv[1], pv[2])
  \/ \E id \in LayerIds : ToggleLayer(id)
  \/ \E a \in 0..(Len(layers) - 1), b \in 0..(Len(layers) - 1) : ReorderLayers(a, b)
  \/ RenderTimerFires

SpecApply == Init /\ [][ApplyNext]_vars

\* one call of apply took the arrays of acc to those of nxt: every array
\* that existed keeps its bytes, and the array returned is the argument or
\* an array that did not exist before
CallKeepsInput(acc, nxt) ==
  /\ \A r \in 1..Len(acc.heap) : nxt.heap[r] = acc.heap[r]
  /\ nxt.data = acc.data \/ nxt.data = Len(acc.heap) + 1
  /\ nxt.data = acc.data => nxt.heap[nxt.data] = acc.heap[acc.data]

\* the calls of apply for the enabled layers i, i+1, ... (0-based), each on
\* the array the call before it returned
RECURSIVE EveryCallKeepsInput(_, _, _)
EveryCallKeepsInput(st, i, acc) ==
  IF i >= Len(st.layers) THEN TRUE
  ELSE IF ~st.layers[i + 1].enabled THEN EveryCallKeepsInput(st, i + 1, acc)
  ELSE /\ CallKeepsInput(acc, RenderLoop([st EXCEPT !.layers = <<st.layers[i + 1]>>],
                                         0, acc))
       /\ EveryCallKeepsInput(st, i + 1,
            RenderLoop([st EXCEPT !.layers = <<st.layers[i + 1]>>], 0, acc))

\* C21: no effect's apply changes a byte of its input buffer: applying the
\* enabled layers of any reachable stack in turn, starting from the pixels
\* as loaded with no cached result, every call leaves the bytes of its
\* argument (and of every other live array) as they were, and returns a new
\* array or its very argument with the bytes it had.
C21_ApplyKeepsInput ==
  (Loaded /\ originalPixelData # NULL) =>
    EveryCallKeepsInput(Cur, 0, [data |-> originalPixelData, heap |-> heap,
                                 cache |-> EmptyMap, perm |-> simplexPerm])

\* a grayscale file under a pixel-sort layer, which returned its argument,
\* followed by a color-quantize layer, which returned a new array with
\* other bytes; the pixels as loaded still have the decoded bytes
C21_Witness ==
  /\ Loaded /\ imageInfo # NO_IMAGE_INFO /\ imageInfo.bytesPerPixel < 3
  /\ Len(layers) = 2 /\ layers[1].enabled /\ layers[2].enabled
  /\ layers[1].effectId = E_PIXEL_SORT /\ layers[2].effectId = E_COLOR_QUANTIZE
  /\ DOMAIN cachedResults = LayerIds
  /\ cachedResults[layers[1].id] = originalPixelData
  /\ cachedResults[layers[2].id] # originalPixelData
  /\ pixelData = cachedResults[layers[2].id]
  /\ PixelBytes # OriginalBytes
  /\ OriginalBytes = PIXELS_GRAY


(***************************************************************************)
(* Files of one chunk with any first type byte                             *)
(***************************************************************************)

TypeBytes == Byte

ChunkDataInputs == {<< >>, <<255>>, <<1, 128>>}

\* signature, one chunk whose type starts with the byte b, IEND
TypedFile(b, data) ==
  PNG_SIGNATURE \o MakeChunk(<<b, 65, 66, 67>>, data) \o MakeChunk(T_IEND, << >>)

LoadTyped(b, data) ==
  /\ ~Loaded /\ b \in TypeBytes
  /\ Install(Collect(loadBuffer(Cur, TypedFile(b, data))))

ChunkTypesNext == \E b \in TypeBytes, data \in ChunkDataInputs : LoadTyped(b, data)

SpecChunkTypes == Init /\ [][ChunkTypesNext]_vars

\* the reference CRC-32, bit by bit: eight shifts of the whole register per
\* byte, xor with 0xEDB88320 when the bit shifted out is set
RECURSIVE ReferenceBits(_, _)
ReferenceBits(c, k) ==
  IF k = 0 THEN c
  ELSE ReferenceBits(IF c[4] % 2 = 1 THEN Xor32(Shr1(c), CRC_POLY) ELSE Shr1(c), k - 1)

RECURSIVE ReferenceLoop(_, _, _, _)
ReferenceLoop(data, i, end, c) ==
  IF i >= end THEN c
  ELSE ReferenceLoop(data, i + 1, end,
                     ReferenceBits(<<c[1], c[2], c[3], Xor8(c[4], data[i + 1])>>, 8))

\* initial value 0xFFFFFFFF, final complement
ReferenceCrc(data, start, length) ==
  Xor32(ReferenceLoop(data, start, start + length, <<255, 255, 255, 255>>),
        <<255, 255, 255, 255>>)

\* the longest range checked at every start offset
MaxCrcLength == 4

\* the (start, length) ranges of data checked: every short range, and the
\* type-and-data range of every chunk
CrcRanges(data, chks) ==
  {<<s, n>> : s \in 0..Len(data), n \in 0..MaxCrcLength} \cup
  {<<chks[i].offset + 4, 4 + chks[i].dataLength>> : i \in 2..Len(chks)}

\* C22: the table-driven crc32 equals the bit-by-bit reference CRC-32 on
\* every checked (start, length) range inside every loaded file, as the
\* four bytes of an unsigned 32-bit value, and the CRC of the bytes 'IEND'
\* is 0xAE426082.
C22_TableCrcEqualsReference ==
  Loaded =>
    /\ \A r \in CrcRanges(buffer, chunks) :
         r[1] + r[2] <= Len(buffer) =>
           /\ crc32(buffer, r[1], r[2]) = ReferenceCrc(buffer, r[1], r[2])
           /\ crc32(buffer, r[1], r[2]) \in [1..4 -> Byte]
    /\ crc32(T_IEND, 0, 4) = <<174, 66, 96, 130>>
    /\ ReferenceCrc(T_IEND, 0, 4) = <<174, 66, 96, 130>>

\* a loaded file whose chunk carries data and a first type byte that is not
\* a letter, parsed with a valid CRC computed by crc32
C22_Witness ==
  /\ Loaded /\ Len(chunks) = 3
  /\ chunks[2].type[1] = 255 /\ chunks[2].dataLength = 2
  /\ chunks[2].crcValid
  /\ chunks[2].calculatedCrc = ReferenceCrc(buffer, 12, 6)
  /\ chunks[3].crc = <<174, 66, 96, 130>>

\* C23: for every first type byte, parsePNG marks the chunk isCritical
\* exactly when bit 5 (0x20) of that byte is clear.
C23_CriticalIffBit5Clear ==
  Loaded =>
    \A i \in 2..Len(chunks) :
      chunks[i].isCritical <=> ((chunks[i].type[1] \div 32) % 2 = 0)


(***************************************************************************)
(* Cache reuse and invalidation                                            *)
(***************************************************************************)

\* the loop of renderLayerStack run from the state st
RenderPass(st) ==
  RenderLoop(st, 0, [data |-> st.originalPixelData, heap |-> st.heap,
                     cache |-> st.cachedResults, perm |-> st.simplexPerm])

\* the pass that ended in acc reused the cached array of every enabled
\* layer of st below the dirty index that had one, and put a newly made
\* array only where the layer is at or after the dirty index or had none
ReusedBelowDirty(st, acc) ==
  \A i \in 1..Len(st.layers) :
    LET id == st.layers[i].id
    IN  st.layers[i].enabled =>
          /\ (i - 1 < st.dirtyFromIndex /\ id \in DOMAIN st.cachedResults)
               => acc.cache[id] = st.cachedResults[id]
          /\ acc.cache[id] > Len(st.heap)
               => (i - 1 >= st.dirtyFromIndex \/ id \notin DOMAIN st.cachedResults)

\* C24: in renderLayerStack an enabled layer below dirtyFromIndex that has
\* a cache entry is not recomputed (its cached array stays its cache entry),
\* and apply is invoked only for enabled layers at or after the dirty index
\* or without a cache entry.
C24_CachedBelowDirtyReused ==
  (Loaded /\ originalPixelData # NULL /\ imageInfo # NO_IMAGE_INFO) =>
    ReusedBelowDirty(Cur, RenderPass(Cur))


\* the positions (0-based) invalidateFromLayer can be called with
LayerPositions == 0..(Len(layers) - 1)

\* the dirty index the claim gives after invalidating index in a state with
\* the dirty index dirty: the lower of the two, -1 standing for none
LowerDirtyIndex(dirty, index) == IF dirty = -1 THEN index ELSE Min(dirty, index)

\* C25: invalidateFromLayer(index) sets dirtyFromIndex to the minimum of
\* its current value and index and removes the cached result of every
\* layer at position index or later (and of no other layer); after a
\* recompute pass dirtyFromIndex is -1.
C25_InvalidateKeepsLowerIndex ==
  (Loaded /\ originalPixelData # NULL /\ imageInfo # NO_IMAGE_INFO) =>
    /\ \A index \in LayerPositions :
         /\ invalidateFromLayer(Cur, index).dirtyFromIndex
              = LowerDirtyIndex(dirtyFromIndex, index)
         /\ DOMAIN invalidateFromLayer(Cur, index).cachedResults
              = DOMAIN cachedResults \ {layers[i].id : i \in (index + 1)..Len(layers)}
    /\ renderLayerStack(Cur).dirtyFromIndex = -1


(***************************************************************************)
(* Undo and redo of layer operations                                       *)
(***************************************************************************)

\* the step moved the history position forward to a layer entry: a layer
\* operation recorded it, or redo() re-applied it
ForwardToLayerEntry ==
  /\ historyIndex' = historyIndex + 1
  /\ IsLayerEntry(history'[historyIndex' + 1])

\* the step is undo() of a layer entry
BackOverLayerEntry ==
  /\ historyIndex' = historyIndex - 1
  /\ IsLayerEntry(history[historyIndex + 1])

\* C26: a layer operation records the list before it and the list after it;
\* undo() right after it makes the layer list equal to the list before the
\* operation, redo() after that makes it equal to the list after the
\* operation (ids, effect ids, enabled flags, params, seeds and order
\* included); no step alters an entry the history keeps.
C26_UndoRedoRestoreLayers ==
  [][ /\ ForwardToLayerEntry =>
           /\ history'[historyIndex' + 1].oldLayers = layers
           /\ history'[historyIndex' + 1].newLayers = layers'
      /\ BackOverLayerEntry =>
           /\ history' = history
           /\ layers' = history[historyIndex + 1].oldLayers
           /\ layers = history[historyIndex + 1].newLayers
      /\ \A i \in 1..Len(history') :
           i <= historyIndex + 1 => history'[i] = history[i]
    ]_vars

\* undo() has just taken back a parameter update of a two-layer stack: the
\* list is the one before the update and differs from the one after it
C26_Witness ==
  /\ Loaded /\ Len(history) = 3 /\ historyIndex = 1
  /\ history[3].type = "layer-param"
  /\ Len(layers) = 2
  /\ layers = history[3].oldLayers
  /\ layers # history[3].newLayers
  /\ layers = history[2].newLayers


(***************************************************************************)
(* Byte edits and the cached results                                       *)
(***************************************************************************)

\* every cached result of st has in tt the bytes it has in st
CacheBytesKept(st, tt) ==
  \A id \in DOMAIN st.cachedResults :
    /\ id \in DOMAIN tt.cachedResults
    /\ tt.heap[tt.cachedResults[id]] = st.heap[st.cachedResults[id]]

\* the entry is a byte edit made in pixel mode
IsPixelByteEntry(entry) == ~IsLayerEntry(entry) /\ entry.mode = "pixel"

\* C27: a pixel-mode byte edit (editByte, fillSelection, randomizeSelection,
\* undo or redo of one) leaves the bytes of every entry of cachedResults as
\* they were, in every reachable state.
C27_ByteEditKeepsCachedBytes ==
  (Loaded /\ UsesPixelBuffer(Cur)) =>
    /\ \A o \in EditOffsets, v \in EditValues :
         CacheBytesKept(Cur, editByte(Cur, o, v))
    /\ \A sel \in Selections, v \in FillValues :
         /\ CacheBytesKept(Cur, fillSelection(Cur, sel[1], sel[2], v))
         /\ CacheBytesKept(Cur, randomizeSelection(Cur, sel[1], sel[2],
                                  Filled(Max(sel[1], sel[2]) - Min(sel[1], sel[2]) + 1, v)))
    /\ (historyIndex >= 0 /\ IsPixelByteEntry(history[historyIndex + 1]))
         => CacheBytesKept(Cur, undo(Cur))
    /\ (historyIndex < Len(history) - 1 /\ IsPixelByteEntry(history[historyIndex + 2]))
         => CacheBytesKept(Cur, redo(Cur))


(***************************************************************************)
(* The debounce timer across a load                                        *)
(***************************************************************************)

\* the timer fires in a state that is as loadBuffer left it: the timer was
\* armed for the file before, and nothing was recorded since the load
StaleTimerFires ==
  /\ Loaded /\ history = << >>
  /\ renderStackTimeout /\ ~renderStackTimeout'

\* C28: a recompute scheduled by updateLayerParam for one file never takes
\* effect on a file loaded afterwards: when the timer fires after the load,
\* the file buffer, the chunk list and the bytes of the pixel buffer stay
\* as loadBuffer left them.
C28_StaleTimerKeepsNewFile ==
  [][ StaleTimerFires =>
        /\ buffer' = buffer
        /\ chunks' = chunks
        /\ BytesAt(heap', pixelData') = BytesAt(heap, pixelData)
    ]_vars


(***************************************************************************)
(* The parse status and the current buffer                                 *)
(***************************************************************************)

\* the chunk list, error list and validity flag are those of parsed
StatusIs(parsed) ==
  /\ chunks = parsed.chunks
  /\ errors = parsed.errors
  /\ isValid = parsed.isValid

\* C29: after every completed operation the session's chunk list, error
\* list and isValid flag equal what parsePNG returns for the current file
\* buffer.
C29_StatusDescribesCurrentBuffer ==
  Loaded => StatusIs(parsePNG(buffer))

\* a raw-mode byte edit has just been made that changed the chunk layout or
\* the signature: the file is invalid and the status says so
C29_Witness ==
  /\ Loaded /\ editMode = "raw" /\ historyIndex >= 0
  /\ ~IsLayerEntry(history[historyIndex + 1])
  /\ history[historyIndex + 1].mode = "raw"
  /\ buffer[history[historyIndex + 1].offset + 1] = history[historyIndex + 1].newData[1]
  /\ buffer # originalBuffer
  /\ ~isValid /\ ~parsePNG(buffer).isValid
  /\ chunks # parsePNG(originalBuffer).chunks


\* C30: in every reachable state every key of cachedResults is the id of a
\* layer of the ordered layer list.
C30_CacheKeysAreLayerIds ==
  DOMAIN cachedResults \subseteq LayerIds

=============================================================================
